---- MODULE Spec2Model ----
(***************************************************************************)
(* Model of magwi.  Three components, each with its own specification:      *)
(*  - the patch writer (src/hook/writer.rs): the bounds-checked,            *)
(*    duplicate-aware byte buffer with an appendable tail and a             *)
(*    bump-allocated loader arena.  A HookWriter is a record with the       *)
(*    fields of the struct; every method is an operator returning the       *)
(*    result and the writer after the call (Spec, SpecWrite);               *)
(*  - the patch transaction of run() in src/main.rs: collection of the     *)
(*    pre/post hooks, placement of the loader and custom text, generation   *)
(*    of the trampolines with the encoder of src/hook/arm.rs, and the       *)
(*    output of code.bin (SpecBuild);                                       *)
(*  - the worker pool (src/worker_pool.rs): a channel, the worker threads   *)
(*    and the main thread that submits tasks and waits (SpecPool).          *)
(***************************************************************************)
EXTENDS Integers, Sequences, FiniteSets, TLC

VARIABLES
    writer,     \* the HookWriter: base_address, loader_extra_address, buffer,
                \* duplicate_write_check, write_reasons
    last,       \* the last call made on the writer: the method and the tag of its result
    written,    \* history kept by SpecWrite: the addresses covered by the
                \* successful write calls made so far
    \* run() of main.rs
    elf,                \* the sections of build/out.elf that run() places
    pre_post_entries,   \* HashMap<u32, PrePostEntry>
    phase,              \* the position of run(): "sections", "symbols", "hks", "place",
                        \* "patch", "exit"
                        \* ("none" where run() is not modelled)
    error,              \* how the process ended: None, a BuildError or a panic
    todo,               \* the keys the iteration over pre_post_entries has not yielded yet
    placed,             \* history: for every entry the iteration has yielded and
                        \* patched, the base address of its trampoline and the
                        \* word that stood at its hook site before
    code_bin,           \* build/code.bin: None until run() writes it
    exheader_bin,       \* build/exheader.bin: None until run() writes it
    \* the worker pool
    channel,    \* the mpsc channel: the messages sent and not yet received
    terminate,  \* the shared terminate flag
    workers,    \* per worker id: where its thread stands and the message it holds
    tasks,      \* per submitted task: the result its closure returns, and history:
                \* the ids of the workers that have run it
    main        \* the thread that owns the pool: where it stands, whether it has
                \* called terminate(), and the result wait() returned

writerVars == <<writer, last, written>>
buildVars == <<elf, pre_post_entries, phase, error, todo, placed, code_bin, exheader_bin>>
poolVars == <<channel, terminate, workers, tasks, main>>
vars == <<writerVars, buildVars, poolVars>>

(* ------------------------------ bounds --------------------------------- *)

\* largest buffer length the model lets the image grow to
MaxLen == 2
\* largest length of a byte string passed to write, write_end or composed by a closure
MaxData == 2

\* the base addresses new is called with (address 0 lies below every window)
BaseAddresses == {1}

Byte == {0, 1}
\* one address past the largest end_address, so that every bound can be crossed
Addr == 0..(MaxLen + 2)

\* the initial images: every byte string of at most n bytes
BytesUpTo(n) == UNION {[1..k -> Byte] : k \in 0..n}

\* the byte strings handed to write, write_end and composed by closures: one of
\* each length, 1 0 1 0 ..., so that every position is told from its neighbour
Payload(k) == [i \in 1..k |-> i % 2]
Payloads == {Payload(k) : k \in 0..MaxData}

(* ------------------------------ values --------------------------------- *)

\* Option<u32>: None is the empty sequence, Some(a) the sequence <<a>>
None == <<>>
Some(a) == <<a>>

\* enum HookExtraPos
Loader == "Loader"
TailPos == "Tail"
HookExtraPos == {Loader, TailPos}

Misc == "Misc"

Ok == [tag |-> "Ok"]
OutOfBoundsRead(a, n) == [tag |-> "OutOfBoundsRead", address |-> a, size |-> n]
OutOfBoundsWrite(a, n) == [tag |-> "OutOfBoundsWrite", address |-> a, size |-> n]
ResizeBelowBaseAddress(a) == [tag |-> "ResizeBelowBaseAddress", address |-> a]
LoaderExtraAddressNotSet == [tag |-> "LoaderExtraAddressNotSet"]
DuplicateWrite(a, n) == [tag |-> "DuplicateWrite", address |-> a, size |-> n]
\* a closure's unwrap() on an Err: the process aborts
Panic == [tag |-> "Panic"]

Max(S) == CHOOSE x \in S : \A y \in S : y <= x
Min2(a, b) == IF a <= b THEN a ELSE b

(* --------------------------- HookWriter -------------------------------- *)

new(base_address, buffer) ==
    [base_address |-> base_address,
     loader_extra_address |-> None,
     buffer |-> buffer,
     duplicate_write_check |-> TRUE,
     write_reasons |-> <<>>]

end_address(w) == w.base_address + Len(w.buffer)

set_loader_extra_address(w, address) ==
    [w EXCEPT !.loader_extra_address = Some(address)]

\* mutant of read: the end of the range is compared with >= instead of >
read_end_exclusive(w, address, count) ==
    IF address < w.base_address
    THEN [res |-> OutOfBoundsRead(address, count), data |-> <<>>]
    ELSE LET offset == address - w.base_address IN
         IF offset + count >= Len(w.buffer)
         THEN [res |-> OutOfBoundsRead(address, count), data |-> <<>>]
         ELSE [res |-> Ok, data |-> SubSeq(w.buffer, offset + 1, offset + count)]

\* read_mut / read::<COUNT>: the result and, on Ok, the bytes copied out
read(w, address, count) ==
    IF address < w.base_address
    THEN [res |-> OutOfBoundsRead(address, count), data |-> <<>>]
    ELSE LET offset == address - w.base_address IN
         IF offset + count > Len(w.buffer)
         THEN [res |-> OutOfBoundsRead(address, count), data |-> <<>>]
         ELSE [res |-> Ok, data |-> SubSeq(w.buffer, offset + 1, offset + count)]

\* mutant of find_duplicate_write: the range stops at address instead of
\* address + size, so that an entry starting inside the new range is missed
find_duplicate_write_short_range(w, address, size) ==
    LET keys == {k \in DOMAIN w.write_reasons : k < address} IN
    IF keys = {} THEN FALSE
    ELSE LET check_address == Max(keys)
             check_size == w.write_reasons[check_address][1]
         IN  check_address + check_size > address

\* write_reasons.range(..address + size).next_back(), tested against address:
\* TRUE when a reason is returned (Some), FALSE for None
find_duplicate_write(w, address, size) ==
    LET keys == {k \in DOMAIN w.write_reasons : k < address + size} IN
    IF keys = {} THEN FALSE
    ELSE LET check_address == Max(keys)
             check_size == w.write_reasons[check_address][1]
         IN  check_address + check_size > address

\* BTreeMap::insert(address, (size, reason)): an existing key is replaced
insert(m, address, size, reason) ==
    [k \in DOMAIN m \cup {address} |-> IF k = address THEN <<size, reason>> ELSE m[k]]

\* buffer[offset..offset+len].copy_from_slice(data)
copy_from_slice(buffer, offset, data) ==
    [i \in 1..Len(buffer) |->
        IF i > offset /\ i <= offset + Len(data) THEN data[i - offset] ELSE buffer[i]]

\* mutant of write: the duplicate check is made before the bounds check
write_duplicate_first(w, address, data) ==
    IF w.duplicate_write_check /\ find_duplicate_write(w, address, Len(data))
    THEN [res |-> DuplicateWrite(address, Len(data)), w |-> w]
    ELSE IF address < w.base_address
    THEN [res |-> OutOfBoundsWrite(address, Len(data)), w |-> w]
    ELSE LET offset == address - w.base_address IN
         IF offset + Len(data) > Len(w.buffer)
         THEN [res |-> OutOfBoundsWrite(address, Len(data)), w |-> w]
         ELSE [res |-> Ok,
               w |-> [w EXCEPT !.buffer = copy_from_slice(@, offset, data),
                               !.write_reasons = insert(@, address, Len(data), Misc)]]

write(w, address, data) ==
    IF address < w.base_address
    THEN [res |-> OutOfBoundsWrite(address, Len(data)), w |-> w]
    ELSE LET offset == address - w.base_address IN
         IF offset + Len(data) > Len(w.buffer)
         THEN [res |-> OutOfBoundsWrite(address, Len(data)), w |-> w]
         ELSE IF w.duplicate_write_check /\ find_duplicate_write(w, address, Len(data))
         THEN [res |-> DuplicateWrite(address, Len(data)), w |-> w]
         ELSE [res |-> Ok,
               w |-> [w EXCEPT !.buffer = copy_from_slice(@, offset, data),
                               !.write_reasons = insert(@, address, Len(data), Misc)]]

\* mutant of write_end: the appended range goes through the duplicate check
write_end_checked(w, data) ==
    IF find_duplicate_write(w, end_address(w), Len(data))
    THEN [res |-> DuplicateWrite(end_address(w), Len(data)), w |-> w]
    ELSE [res |-> Ok, w |-> [w EXCEPT !.buffer = @ \o data]]

write_end(w, data) ==
    [res |-> Ok, w |-> [w EXCEPT !.buffer = @ \o data]]

\* Vec::resize(buf_size, 0): truncate, or extend with zero bytes
resize(buffer, buf_size) ==
    [i \in 1..buf_size |-> IF i <= Len(buffer) THEN buffer[i] ELSE 0]

\* mutant of resize_until: the byte at until_address is kept in the buffer
resize_until_inclusive(w, until_address) ==
    IF until_address < w.base_address
    THEN [res |-> ResizeBelowBaseAddress(until_address), w |-> w]
    ELSE [res |-> Ok,
          w |-> [w EXCEPT !.buffer = resize(@, until_address - w.base_address + 1)]]

resize_until(w, until_address) ==
    IF until_address < w.base_address
    THEN [res |-> ResizeBelowBaseAddress(until_address), w |-> w]
    ELSE [res |-> Ok,
          w |-> [w EXCEPT !.buffer = resize(@, until_address - w.base_address)]]

(* A closure passed to write_extra, as main.rs writes them: it reads the   *)
(* outer writer, may write to it (the redirect at the hook site, unwrapped) *)
(* and composes its block in the nested writer with write_end.  outer is    *)
(* <<>> or one write <<[address, data]>>; block is the bytes it appends.    *)
Closures ==
    [outer : {<<>>} \cup {<<[address |-> a, data |-> Payload(1)]>> : a \in Addr},
     block : Payloads]

\* write_fn(self, &mut w): the outer and the nested writer after the closure ran
call_closure(outer, nested, f) ==
    LET o == IF f.outer = <<>> THEN [res |-> Ok, w |-> outer]
             ELSE write(outer, f.outer[1].address, f.outer[1].data)
    IN  IF o.res # Ok
        THEN [res |-> Panic, outer |-> outer, nested |-> nested]
        ELSE [res |-> Ok, outer |-> o.w, nested |-> write_end(nested, f.block).w]

\* the address the nested writer is based at: Option, None when the loader
\* cursor is required and not set
extra_address(w, pos) ==
    IF pos = Loader THEN w.loader_extra_address ELSE Some(end_address(w))

\* mutant of the commit: the loader cursor is not advanced
commit_extra_cursor_kept(w, pos, address, data) ==
    IF pos = Loader THEN write(w, address, data) ELSE write_end(w, data)

\* mutant of the commit: the tail block is recorded in the ledger
commit_extra_tail_recorded(w, pos, address, data) ==
    IF pos = Loader
    THEN LET r == write(w, address, data) IN
         IF r.res # Ok THEN r
         ELSE [res |-> Ok,
               w |-> [r.w EXCEPT !.loader_extra_address = Some(address + Len(data))]]
    ELSE [res |-> Ok,
          w |-> [w EXCEPT !.buffer = @ \o data,
                          !.write_reasons = insert(@, address, Len(data), Misc)]]

\* the commit of the nested bytes, after the closure returned
commit_extra(w, pos, address, data) ==
    IF pos = Loader
    THEN LET r == write(w, address, data) IN
         IF r.res # Ok THEN r
         ELSE [res |-> Ok,
               w |-> [r.w EXCEPT !.loader_extra_address = Some(address + Len(data))]]
    ELSE write_end(w, data)

\* res: what write_extra returns (Panic: the closure aborted the process);
\* base: the nested writer's base_address (None when the closure was not invoked)
write_extra(w, pos, f) ==
    LET address == extra_address(w, pos) IN
    IF address = None
    THEN [res |-> LoaderExtraAddressNotSet, w |-> w, base |-> None, called |-> FALSE]
    ELSE LET c == call_closure(w, new(address[1], <<>>), f) IN
         IF c.res # Ok
         THEN [res |-> Panic, w |-> c.outer, base |-> address, called |-> TRUE]
         ELSE LET r == commit_extra(c.outer, pos, address[1], c.nested.buffer) IN
              [res |-> r.res, w |-> r.w, base |-> Some(c.nested.base_address),
               called |-> TRUE]

(* ------------------------------ actions -------------------------------- *)

\* the addresses of [address, address + size)
Range(address, size) == {a \in Addr : address <= a /\ a < address + size}

\* the process is alive: no closure has panicked
Running == last.res # "Panic"

\* run() is not part of the writer's specifications: its variables stay put
NoBuild ==
    /\ elf = <<>>
    /\ pre_post_entries = <<>>
    /\ phase = "none"
    /\ error = None
    /\ todo = {}
    /\ placed = <<>>
    /\ code_bin = None
    /\ exheader_bin = None

\* no pool exists in the specifications of the writer and of run()
NoPool ==
    /\ channel = <<>>
    /\ terminate = FALSE
    /\ workers = <<>>
    /\ tasks = <<>>
    /\ main = [pc |-> "none"]

\* main.rs:116 / the tests: HookWriter::new(base, initial bytes)
Init ==
    /\ \E b \in BaseAddresses, buf \in BytesUpTo(MaxLen) : writer = new(b, buf)
    /\ last = [op |-> "new", res |-> "Ok"]
    /\ written = {}
    /\ NoBuild
    /\ NoPool

Read(address, count) ==
    /\ Running
    /\ last' = [op |-> "read", res |-> read(writer, address, count).res.tag]
    /\ UNCHANGED <<writer, written, buildVars, poolVars>>

WriteCall(address, data) ==
    /\ Running
    /\ LET r == write(writer, address, data) IN
       /\ writer' = r.w
       /\ last' = [op |-> "write", res |-> r.res.tag]
    /\ UNCHANGED <<buildVars, poolVars>>

Write(address, data) ==
    /\ WriteCall(address, data)
    /\ UNCHANGED written

WriteEnd(data) ==
    /\ Running
    /\ Len(writer.buffer) + Len(data) <= MaxLen
    /\ LET r == write_end(writer, data) IN
       /\ writer' = r.w
       /\ last' = [op |-> "write_end", res |-> r.res.tag]
    /\ UNCHANGED <<written, buildVars, poolVars>>

WriteExtra(pos, f) ==
    /\ Running
    /\ pos = TailPos => Len(writer.buffer) + Len(f.block) <= MaxLen
    /\ LET r == write_extra(writer, pos, f) IN
       /\ writer' = r.w
       /\ last' = [op |-> "write_extra_" \o pos, res |-> r.res.tag]
    /\ UNCHANGED <<written, buildVars, poolVars>>

ResizeUntil(until_address) ==
    /\ Running
    /\ until_address <= writer.base_address + MaxLen
    /\ LET r == resize_until(writer, until_address) IN
       /\ writer' = r.w
       /\ last' = [op |-> "resize_until", res |-> r.res.tag]
    /\ UNCHANGED <<written, buildVars, poolVars>>

SetLoaderExtraAddress(address) ==
    /\ Running
    /\ writer' = set_loader_extra_address(writer, address)
    /\ last' = [op |-> "set_loader_extra_address", res |-> "Ok"]
    /\ UNCHANGED <<written, buildVars, poolVars>>

Next ==
    \/ \E a \in Addr, n \in 0..MaxData : Read(a, n)
    \/ \E a \in Addr, d \in Payloads : Write(a, d)
    \/ \E d \in Payloads : WriteEnd(d)
    \/ \E pos \in HookExtraPos, f \in Closures : WriteExtra(pos, f)
    \/ \E a \in Addr : ResizeUntil(a)
    \/ \E a \in Addr : SetLoaderExtraAddress(a)

Spec == Init /\ [][Next]_vars

\* A writer driven through write alone (test_write, test_duplicate_write), with
\* the history of the addresses its successful writes covered.
TrackedWrite(address, data) ==
    /\ WriteCall(address, data)
    /\ written' = IF write(writer, address, data).res = Ok
                  THEN written \cup Range(address, Len(data))
                  ELSE written

NextWrite == \E a \in Addr, d \in Payloads : TrackedWrite(a, d)

SpecWrite == Init /\ [][NextWrite]_vars

(* ------------------------------- claims -------------------------------- *)

\* [address, address + size) lies inside the window of w
InWindow(w, address, size) ==
    address >= w.base_address /\ address + size <= end_address(w)

\* the ledger entries of w, as <<start, size>> pairs
Entries(w) == {<<k, w.write_reasons[k][1]>> : k \in DOMAIN w.write_reasons}

\* two intervals [a, a + n) and [b, b + m) share an address
Overlap(a, n, b, m) == \E x \in Addr : a <= x /\ x < a + n /\ b <= x /\ x < b + m

\* C1 (as claimed): on a writer driven by write calls alone, a write whose range
\* lies in the window and shares an address with the range of an earlier
\* successful write (of any length, 0 included) fails with
\* DuplicateWrite(addr, len) and leaves the image unchanged.
C1_DuplicateOfEarlierWriteFails ==
    \A a \in Addr, d \in Payloads :
        (InWindow(writer, a, Len(d)) /\ Range(a, Len(d)) \cap written # {})
        => LET r == write(writer, a, d) IN
           /\ r.res = DuplicateWrite(a, Len(d))
           /\ r.w.buffer = writer.buffer

\* C2: in every reachable state of the writer, the intervals [start, start+size)
\* of two distinct entries of the duplicate-write ledger share no address.
C2_LedgerEntriesDisjoint ==
    \A e1 \in Entries(writer), e2 \in Entries(writer) :
        e1 # e2 => ~Overlap(e1[1], e1[2], e2[1], e2[2])

\* C2 witness: a successful write has just put a second entry next to an
\* earlier one (the first ends where the second starts).
C2_Witness ==
    /\ last = [op |-> "write", res |-> "Ok"]
    /\ \E e1 \in Entries(writer), e2 \in Entries(writer) :
          e1[2] > 0 /\ e2[2] > 0 /\ e1[1] + e1[2] = e2[1]

\* C3: write(addr, bytes) returns OutOfBoundsWrite(addr, len) exactly when
\* addr < base_address or addr + len > end_address, also when the range overlaps
\* a ledger entry (the bounds check is decided first); and whenever write
\* returns an error the buffer, its length, the ledger and the loader cursor
\* are unchanged.
C3_WriteBoundsAndErrorFrame ==
    \A a \in Addr, d \in Payloads :
        LET r == write(writer, a, d) IN
        /\ (r.res = OutOfBoundsWrite(a, Len(d)))
              <=> (a < writer.base_address \/ a + Len(d) > end_address(writer))
        /\ r.res.tag \in {"Ok", "OutOfBoundsWrite", "DuplicateWrite"}
        /\ r.res # Ok => r.w = writer

\* C3 witness: a write has just returned OutOfBoundsWrite in a state where some
\* out-of-window write also overlaps a ledger entry.
C3_Witness ==
    /\ last = [op |-> "write", res |-> "OutOfBoundsWrite"]
    /\ \E a \in Addr, d \in Payloads, e \in Entries(writer) :
          /\ ~InWindow(writer, a, Len(d))
          /\ Overlap(a, Len(d), e[1], e[2])

\* C4: read(addr, n) succeeds exactly when addr >= base_address and
\* addr + n <= end_address, and then returns the n bytes stored at offsets
\* addr-base .. addr-base+n; otherwise it fails with OutOfBoundsRead(addr, n).
\* A read call never changes the writer.
C4_ReadContract ==
    /\ [](\A a \in Addr, n \in 0..(MaxLen + 1) :
            LET r == read(writer, a, n) IN
            IF a >= writer.base_address /\ a + n <= end_address(writer)
            THEN /\ r.res = Ok
                 /\ r.data = [i \in 1..n |-> writer.buffer[a - writer.base_address + i]]
            ELSE r.res = OutOfBoundsRead(a, n))
    /\ [][last'.op = "read" => writer' = writer]_vars

\* C4 witness: a read has just succeeded on an image that holds two different
\* bytes, and a read one byte longer than the image fails.
C4_Witness ==
    /\ last = [op |-> "read", res |-> "Ok"]
    /\ \E i \in DOMAIN writer.buffer, j \in DOMAIN writer.buffer :
          writer.buffer[i] # writer.buffer[j]
    /\ read(writer, writer.base_address, Len(writer.buffer) + 1).res # Ok

\* the addresses and the ledger key a closure writes in the outer writer
OuterRange(f) ==
    IF f.outer = <<>> THEN {} ELSE Range(f.outer[1].address, Len(f.outer[1].data))
OuterKeys(f) == IF f.outer = <<>> THEN {} ELSE {f.outer[1].address}

\* C5: write_extra(Loader, f) with the cursor not set returns
\* LoaderExtraAddressNotSet without invoking f and without changing the writer;
\* with the cursor at c the nested writer is based at c and, on success, the
\* nested bytes are stored at [c, c+len) by a write the ledger records and that
\* no earlier ledger entry overlaps, the cursor becomes c+len and the image
\* length is unchanged; a following Loader allocation starts at c+len and leaves
\* the first block in place.
C5_LoaderExtra ==
    \A f \in Closures :
        LET r == write_extra(writer, Loader, f)
            cur == writer.loader_extra_address
            n == Len(f.block)
        IN  IF cur = None
            THEN r.res = LoaderExtraAddressNotSet /\ ~r.called /\ r.w = writer
            ELSE /\ r.called
                 /\ r.base = cur
                 /\ r.res = Ok =>
                      /\ read(r.w, cur[1], n) = [res |-> Ok, data |-> f.block]
                      /\ cur[1] \in DOMAIN r.w.write_reasons
                      /\ r.w.write_reasons[cur[1]] = <<n, Misc>>
                      /\ \A e \in Entries(writer) : ~Overlap(cur[1], n, e[1], e[2])
                      /\ r.w.loader_extra_address = Some(cur[1] + n)
                      /\ Len(r.w.buffer) = Len(writer.buffer)
                      /\ \A g \in Closures :
                            g.outer = <<>> =>
                            LET r2 == write_extra(r.w, Loader, g) IN
                            /\ r2.base = Some(cur[1] + n)
                            /\ r2.res = Ok =>
                                 /\ read(r2.w, cur[1], n).data = f.block
                                 /\ read(r2.w, cur[1] + n, Len(g.block)).data = g.block
                                 /\ r2.w.loader_extra_address
                                        = Some(cur[1] + n + Len(g.block))

\* C5 witness: a Loader allocation has just succeeded and the cursor stands at
\* the end of two adjacent non-empty ledger entries.
C5_Witness ==
    /\ last = [op |-> "write_extra_Loader", res |-> "Ok"]
    /\ \E e1 \in Entries(writer), e2 \in Entries(writer) :
          /\ e1[2] > 0 /\ e2[2] > 0 /\ e1[1] + e1[2] = e2[1]
          /\ writer.loader_extra_address = Some(e2[1] + e2[2])

\* C6: write_extra(Tail, f) bases the nested writer at the outer end_address e
\* of call time; unless the closure's own outer write fails, it returns Ok, the
\* nested bytes occupy [e, e+len), end_address has grown by len, every byte
\* below e that f did not write is unchanged, and the loader cursor and every
\* ledger entry but the one of f's outer write are as before the call.
C6_TailExtra ==
    \A f \in Closures :
        LET r == write_extra(writer, TailPos, f)
            e == end_address(writer)
            n == Len(f.block)
            base == writer.base_address
        IN  /\ r.called
            /\ r.base = Some(e)
            /\ r.res \in {Ok, Panic}
            /\ (r.res = Panic) <=>
                  /\ f.outer # <<>>
                  /\ \/ ~InWindow(writer, f.outer[1].address, Len(f.outer[1].data))
                     \/ \E x \in Entries(writer) :
                           Overlap(f.outer[1].address, Len(f.outer[1].data), x[1], x[2])
            /\ r.res = Ok =>
                 /\ end_address(r.w) = e + n
                 /\ read(r.w, e, n) = [res |-> Ok, data |-> f.block]
                 /\ \A a \in Addr \ OuterRange(f) :
                       (base <= a /\ a < e) =>
                       r.w.buffer[a - base + 1] = writer.buffer[a - base + 1]
                 /\ r.w.loader_extra_address = writer.loader_extra_address
                 /\ \A k \in (DOMAIN r.w.write_reasons \cup DOMAIN writer.write_reasons)
                                \ OuterKeys(f) :
                       /\ k \in DOMAIN r.w.write_reasons
                       /\ k \in DOMAIN writer.write_reasons
                       /\ r.w.write_reasons[k] = writer.write_reasons[k]

\* C6 witness: a Tail allocation has just succeeded, the image ends with a
\* non-empty payload that no ledger entry covers, and the cursor is set.
C6_Witness ==
    /\ last = [op |-> "write_extra_Tail", res |-> "Ok"]
    /\ Len(writer.buffer) = MaxLen
    /\ read(writer, end_address(writer) - MaxData, MaxData).data = Payload(MaxData)
    /\ \A e \in Entries(writer) : e[1] + e[2] <= end_address(writer) - MaxData
    /\ writer.write_reasons # <<>>
    /\ writer.loader_extra_address # None

\* C7 (as claimed): whenever write_extra(pos, f) returns an error, the outer
\* image, its length, its ledger and its loader cursor equal their values before
\* the call, for every closure that touches the outer writer through read and
\* write only.
C7_WriteExtraAllOrNothing ==
    \A pos \in HookExtraPos, f \in Closures :
        LET r == write_extra(writer, pos, f) IN
        r.res.tag \in {"LoaderExtraAddressNotSet", "OutOfBoundsWrite", "DuplicateWrite"}
        => r.w = writer

\* C8: write_end(bytes) returns Ok in every state, also where the appended range
\* overlaps a ledger entry: end_address grows by len(bytes), every earlier byte,
\* base_address, the ledger and the loader cursor are unchanged, and a read of
\* the appended range returns bytes.
C8_WriteEnd ==
    \A d \in Payloads :
        LET r == write_end(writer, d) IN
        /\ r.res = Ok
        /\ end_address(r.w) = end_address(writer) + Len(d)
        /\ SubSeq(r.w.buffer, 1, Len(writer.buffer)) = writer.buffer
        /\ r.w.base_address = writer.base_address
        /\ r.w.write_reasons = writer.write_reasons
        /\ r.w.loader_extra_address = writer.loader_extra_address
        /\ read(r.w, end_address(writer), Len(d)) = [res |-> Ok, data |-> d]

\* C8 witness: write_end has just returned Ok, and the last byte of the image
\* lies in the range of a one-byte ledger entry yet is not the byte that write
\* stored: it was appended over an address written before a truncation.
C8_Witness ==
    /\ last = [op |-> "write_end", res |-> "Ok"]
    /\ Len(writer.buffer) > 0
    /\ \E e \in Entries(writer) :
          /\ e[2] = 1 /\ e[1] = end_address(writer) - 1
          /\ writer.buffer[Len(writer.buffer)] # Payload(1)[1]

\* C9: resize_until(a) with a >= base_address returns Ok, and then
\* end_address() = a, the bytes of [base, min(old end, a)) are preserved and
\* every added byte is 0, a read of the byte at a-1 succeeds iff a > base and a
\* read at a fails; with a < base_address it returns ResizeBelowBaseAddress(a)
\* and the buffer is unchanged.
C9_ResizeUntil ==
    \A a \in Addr :
        LET r == resize_until(writer, a)
            old == Len(writer.buffer)
        IN  IF a >= writer.base_address
            THEN /\ r.res = Ok
                 /\ end_address(r.w) = a
                 /\ \A i \in 1..Min2(old, a - writer.base_address) :
                       r.w.buffer[i] = writer.buffer[i]
                 /\ \A i \in (old + 1)..(a - writer.base_address) : r.w.buffer[i] = 0
                 /\ (read(r.w, a - 1, 1).res = Ok) <=> (a > writer.base_address)
                 /\ read(r.w, a, 1).res = OutOfBoundsRead(a, 1)
            ELSE /\ r.res = ResizeBelowBaseAddress(a)
                 /\ r.w.buffer = writer.buffer

\* C9 witness: resize_until has just returned Ok, and the image holds a 0 at an
\* address where a one-byte write stored a 1: it was truncated away and added
\* again as a zero byte.
C9_Witness ==
    /\ last = [op |-> "resize_until", res |-> "Ok"]
    /\ \E e \in Entries(writer) :
          /\ e[2] = 1 /\ InWindow(writer, e[1], 1)
          /\ writer.buffer[e[1] - writer.base_address + 1] = 0

\* C10 (as claimed): on a writer created by new and driven by write calls, every
\* write whose range lies inside the window succeeds, and a following read of
\* the same range returns the bytes just written, also when the range overlaps
\* a range written earlier.
C10_WriteInWindowSucceeds ==
    \A a \in Addr, d \in Payloads :
        InWindow(writer, a, Len(d))
        => LET r == write(writer, a, d) IN
           /\ r.res = Ok
           /\ read(r.w, a, Len(d)) = [res |-> Ok, data |-> d]

(* ------------------------- src/hook/arm.rs ----------------------------- *)

\* A u32 is kept as the record [hi, lo] of its bits 31..24 and 23..0 (the
\* checker's integers are 32-bit signed): its value is hi * 2^24 + lo.
U32(hi, lo) == [hi |-> hi, lo |-> lo]

\* u32::to_le_bytes and u32::from_le_bytes
to_le_bytes(v) ==
    <<v.lo % 256, (v.lo \div 256) % 256, (v.lo \div 65536) % 256, v.hi>>
from_le_bytes(b) == U32(b[4], b[1] + 256 * b[2] + 65536 * b[3])

\* ArmCondition::AL
AL == 14

\* mutant of to_u32: the link bit is always set
to_u32_always_link(condition, link, from_addr, to_addr) ==
    LET offset == (to_addr \div 4) - (from_addr \div 4) - 2 IN
    IF offset < -16777216 \/ offset > 16777215
    THEN None
    ELSE Some(U32(condition * 16 + 10 + 1, offset % 16777216))

\* ArmBranch::to_u32: 0b101 << 25 | condition << 28 | link << 24 | offset & 0xFFFFFF,
\* None when the word offset leaves [-0x1000000, 0xFFFFFF]
to_u32(condition, link, from_addr, to_addr) ==
    LET offset == (to_addr \div 4) - (from_addr \div 4) - 2 IN
    IF offset < -16777216 \/ offset > 16777215
    THEN None
    ELSE Some(U32(condition * 16 + 10 + (IF link THEN 1 ELSE 0), offset % 16777216))

make_branch_u32(link, from_addr, to_addr, condition) ==
    to_u32(condition, link, from_addr, to_addr)

\* 0x092D0000 | cond << 28 | registers_bitfield
make_push_u32(registers_bitfield, cond) ==
    U32(9 + cond * 16, 2949120 + registers_bitfield)

\* 0x08BD0000 | cond << 28 | registers_bitfield
make_pop_u32(registers_bitfield, cond) ==
    U32(8 + cond * 16, 12386304 + registers_bitfield)

\* mutant of relocate_u32: a B/BL word is copied with its offset untouched
relocate_u32_offset_kept(val, src_address, dest_address) == Some(val)

\* relocate_u32: a B/BL word (bits 27..24 = 0xA or 0xB) gets the offset that
\* reaches, from dest_address, the destination computed from src_address and
\* the 24 offset bits taken as an unsigned number; other words are returned as is
relocate_u32(val, src_address, dest_address) ==
    LET nybble14 == val.hi % 16 IN
    IF nybble14 = 10 \/ nybble14 = 11
    THEN LET old_offset == (val.lo + 2) * 4
             b_dest_address == src_address + old_offset
             new_offset == (b_dest_address \div 4) - (dest_address \div 4) - 2
         IN  IF new_offset < -16777216 \/ new_offset > 16777215
             THEN None
             ELSE Some(U32(val.hi, new_offset % 16777216))
    ELSE Some(val)

(* ----------------------- src/main.rs: run() ---------------------------- *)

\* the page size in words: exheader::PAGE_SIZE is 0x1000 bytes, scaled down to
\* keep the image short
PageWords == 8
PAGE_SIZE == 4 * PageWords
\* the number of pre/post callbacks the symbols and .hks entries register
MaxHooks == 2

\* HookWriter::new(0x100000, ...)
CodeBase == 1048576

\* the exheader of the original program: two instructions of text in one page,
\* one word of data in one page, some bss
exheader ==
    [text_section |-> [address |-> CodeBase, size |-> 8, num_pages |-> 1],
     stack_size |-> 16384,
     rodata_section |-> [address |-> CodeBase + PAGE_SIZE, size |-> 0, num_pages |-> 0],
     data_section |-> [address |-> CodeBase + PAGE_SIZE, size |-> 4, num_pages |-> 1],
     bss_size |-> 8]

calc_loader_address(eh) == eh.text_section.address + eh.text_section.size

calc_loader_max_size(eh) ==
    eh.text_section.num_pages * PAGE_SIZE - eh.text_section.size

calc_custom_text_address(eh) ==
    eh.data_section.address + eh.data_section.num_pages * PAGE_SIZE + eh.bss_size

loader_address == calc_loader_address(exheader)
loader_max_size == calc_loader_max_size(exheader)
custom_text_address == calc_custom_text_address(exheader)

Zeros(n) == [i \in 1..n |-> 0]

\* original/code.bin: mov r0, r0 (0xE1A00000) and b +1 (0xEA000001) as the text,
\* the rest of the text page, one word of data
OriginalCode ==
    to_le_bytes(U32(225, 10485760)) \o to_le_bytes(U32(234, 1))
        \o Zeros(PAGE_SIZE - 8) \o <<1, 2, 3, 4>>

\* the sections of build/out.elf: .mw_loader_text is linked at loader_address
\* (the linker script of main.rs:295) and holds one instruction, .text is linked
\* at custom_text_address and holds one instruction (bx lr, 0xE12FFF1E)
LoaderTextSection ==
    [address |-> loader_address, data |-> to_le_bytes(U32(225, 10485761))]
CustomTextSection ==
    [address |-> custom_text_address, data |-> to_le_bytes(U32(225, 3145502))]
\* a section of a Replace hook, linked over the second instruction of the
\* original text (mov r0, r0), and one linked 256 MiB up, outside the image
HookSection ==
    [address |-> CodeBase + 4, data |-> to_le_bytes(U32(225, 10485760))]
FarHookSection ==
    [address |-> 268435456, data |-> to_le_bytes(U32(225, 10485760))]
\* a .mw_loader_text that does not fit the slack of the text pages
LargeLoaderTextSection ==
    [address |-> loader_address,
     data |-> to_le_bytes(U32(225, 10485761)) \o Zeros(loader_max_size)]
Elfs ==
    [loader_text_section : {None, Some(LoaderTextSection), Some(LargeLoaderTextSection)},
     custom_text_section : {None, Some(CustomTextSection)},
     hook_section : {None, Some(HookSection), Some(FarHookSection)}]

\* (custom_text_address + used_text_size + 0xFFF) & !0xFFF, for the scaled page
round_to_page(v) == ((v + PAGE_SIZE - 1) \div PAGE_SIZE) * PAGE_SIZE

\* exheader::page_count
page_count(v) == round_to_page(v) \div PAGE_SIZE

\* mutant of finalize_exheader: the pages of the data are counted before its
\* size is brought up to date
finalize_exheader_stale_pages(eh, w) ==
    [eh EXCEPT
        !.text_section.size = eh.text_section.num_pages * PAGE_SIZE,
        !.data_section.size = end_address(w) - eh.data_section.address,
        !.data_section.num_pages = page_count(eh.data_section.size),
        !.bss_size = 0]

\* main.rs:823-829: the sizes of the exheader after the build
finalize_exheader(eh, w) ==
    LET size == end_address(w) - eh.data_section.address IN
    [eh EXCEPT
        !.text_section.size = eh.text_section.num_pages * PAGE_SIZE,
        !.data_section.size = size,
        !.data_section.num_pages = page_count(size),
        !.bss_size = 0]

\* the end of the image once the custom text is placed
placed_end_address ==
    round_to_page(custom_text_address + Len(CustomTextSection.data))

\* the hook sites named by hook symbols and .hks entries: the two instructions
\* of the original text, the instruction of the loader text, the instruction
\* of the custom text, the word after it, and the word at the end of the
\* placed image
HookSites ==
    {CodeBase, CodeBase + 4, loader_address, custom_text_address,
     custom_text_address + 4, placed_end_address}

\* the callbacks: the function of the custom text, and an address 256 MiB up
FarAddress == 268435456
Callbacks == {custom_text_address, FarAddress}

\* BuildError::Hook(location, msg) and BuildError::Fatal(msg)
Hook(msg) == [tag |-> "Hook", msg |-> msg]
Fatal(msg) == [tag |-> "Fatal", msg |-> msg]

PrePostEntry(extra_pos) == [extra_pos |-> extra_pos, pre |-> <<>>, post |-> <<>>]

\* HashMap::entry(key).or_insert_with(value): the map with the key present
or_insert_with(m, key, value) ==
    IF key \in DOMAIN m THEN m ELSE (key :> value) @@ m

\* if address < custom_text_address { Loader } else { Tail }
arena_of(address) == IF address < custom_text_address THEN Loader ELSE TailPos

\* HookKind::Pre(from_addr) | HookKind::Post(from_addr) of the symbol loop:
\* the result and the table after it
symbol_hook(entries, kind, from_addr, address) ==
    LET extra_pos == arena_of(from_addr)
        m == or_insert_with(entries, from_addr, PrePostEntry(extra_pos))
    IN  IF extra_pos # m[from_addr].extra_pos
        THEN [res |-> Hook("Pre/post hooks are in different sections"), entries |-> m]
        ELSE [res |-> Ok,
              entries |-> IF kind = "Pre"
                          THEN [m EXCEPT ![from_addr].pre = Append(@, address)]
                          ELSE [m EXCEPT ![from_addr].post = Append(@, address)]]

\* mutant of hks_softbranch: the arena of the hook is not compared with the entry's
hks_softbranch_unchecked(entries, opcode_pos, address, to_address) ==
    LET m == or_insert_with(entries, address, PrePostEntry(arena_of(to_address))) IN
    IF opcode_pos = "pre"
    THEN [res |-> Ok, entries |-> [m EXCEPT ![address].post = Append(@, to_address)]]
    ELSE IF opcode_pos = "post"
    THEN [res |-> Ok, entries |-> [m EXCEPT ![address].pre = Append(@, to_address)]]
    ELSE [res |-> Hook("Invalid opcode position"), entries |-> m]

\* mutant of hks_softbranch: opcode pre feeds the pre list, post the post list
hks_softbranch_unswapped(entries, opcode_pos, address, to_address) ==
    LET extra_pos == arena_of(to_address)
        m == or_insert_with(entries, address, PrePostEntry(extra_pos))
    IN  IF extra_pos # m[address].extra_pos
        THEN [res |-> Hook("Pre/post hooks are in different sections"), entries |-> m]
        ELSE IF opcode_pos = "pre"
        THEN [res |-> Ok, entries |-> [m EXCEPT ![address].pre = Append(@, to_address)]]
        ELSE IF opcode_pos = "post"
        THEN [res |-> Ok, entries |-> [m EXCEPT ![address].post = Append(@, to_address)]]
        ELSE [res |-> Hook("Invalid opcode position"), entries |-> m]

\* the "softbranch" | "soft_branch" arm of the .hks loop, from the resolved
\* to_address on: the result and the table after it
hks_softbranch(entries, opcode_pos, address, to_address) ==
    LET extra_pos == arena_of(to_address)
        m == or_insert_with(entries, address, PrePostEntry(extra_pos))
    IN  IF extra_pos # m[address].extra_pos
        THEN [res |-> Hook("Pre/post hooks are in different sections"), entries |-> m]
        ELSE IF opcode_pos = "pre"
        THEN [res |-> Ok, entries |-> [m EXCEPT ![address].post = Append(@, to_address)]]
        ELSE IF opcode_pos = "post"
        THEN [res |-> Ok, entries |-> [m EXCEPT ![address].pre = Append(@, to_address)]]
        ELSE [res |-> Hook("Invalid opcode position"), entries |-> m]

\* the section loop over build/out.elf (main.rs:352-379): .mw_loader_text
\* sets the loader cursor, a hook section is written at its address
emit_sections(w, e) ==
    LET w1 == IF e.loader_text_section = None THEN w
              ELSE LET section == e.loader_text_section[1] IN
                   set_loader_extra_address(w, section.address + Len(section.data))
    IN  IF e.hook_section = None THEN [res |-> Ok, w |-> w1]
        ELSE LET r == write(w1, e.hook_section[1].address, e.hook_section[1].data) IN
             IF r.res # Ok
             THEN [res |-> Fatal("Failed to write hook section data"), w |-> w1]
             ELSE r

\* mutant of place_sections: the size of the loader is not compared with
\* loader_max_size
place_sections_any_size(w, e) ==
    LET l == IF e.loader_text_section = None THEN [res |-> Ok, w |-> w]
             ELSE LET r == write(w, loader_address, e.loader_text_section[1].data) IN
                  IF r.res # Ok
                  THEN [res |-> Fatal("Failed to write loader text section data"), w |-> w]
                  ELSE r
    IN  IF l.res # Ok THEN l
        ELSE IF e.custom_text_section = None
        THEN [res |-> Fatal("Custom text section not found"), w |-> l.w]
        ELSE LET section == e.custom_text_section[1]
                 z == resize_until(l.w, round_to_page(custom_text_address + Len(section.data)))
             IN  IF z.res # Ok
                 THEN [res |-> Fatal("Failed to resize for custom text section"), w |-> l.w]
                 ELSE LET r == write(z.w, custom_text_address, section.data) IN
                      IF r.res # Ok
                      THEN [res |-> Fatal("Failed to write custom text section data"),
                            w |-> z.w]
                      ELSE r

\* loader and custom text placement (main.rs:650-706): the result and the
\* writer after it
place_sections(w, e) ==
    LET l == IF e.loader_text_section = None THEN [res |-> Ok, w |-> w]
             ELSE LET section == e.loader_text_section[1]
                      used_loader_size == Len(section.data)
                  IN  IF used_loader_size > loader_max_size
                      THEN [res |-> Fatal("Loader size exceeds maximum size"), w |-> w]
                      ELSE LET r == write(w, loader_address, section.data) IN
                           IF r.res # Ok
                           THEN [res |-> Fatal("Failed to write loader text section data"),
                                 w |-> w]
                           ELSE r
    IN  IF l.res # Ok THEN l
        ELSE IF e.custom_text_section = None
        THEN [res |-> Fatal("Custom text section not found"), w |-> l.w]
        ELSE LET section == e.custom_text_section[1]
                 used_text_size == Len(section.data)
                 end == round_to_page(custom_text_address + used_text_size)
                 z == resize_until(l.w, end)
             IN  IF z.res # Ok
                 THEN [res |-> Fatal("Failed to resize for custom text section"), w |-> l.w]
                 ELSE LET r == write(z.w, custom_text_address, section.data) IN
                      IF r.res # Ok
                      THEN [res |-> Fatal("Failed to write custom text section data"),
                            w |-> z.w]
                      ELSE r

\* push {r0-r12, lr} and pop {r0-r12, lr}
PushAll == make_push_u32(24575, AL)
PopAll == make_pop_u32(24575, AL)

\* mutant of write_callbacks: the BL is encoded from the address of the PUSH
RECURSIVE write_callbacks_from_push(_, _)
write_callbacks_from_push(extra_writer, callbacks) ==
    IF callbacks = <<>> THEN [res |-> Ok, w |-> extra_writer]
    ELSE LET bl == make_branch_u32(TRUE, end_address(extra_writer), Head(callbacks), AL)
             pushed == write_end(extra_writer, to_le_bytes(PushAll)).w
         IN  IF bl = None THEN [res |-> Panic, w |-> pushed]
             ELSE write_callbacks_from_push(
                      write_end(write_end(pushed, to_le_bytes(bl[1])).w,
                                to_le_bytes(PopAll)).w,
                      Tail(callbacks))

\* for (dest_addr, _) in &entry.pre / &entry.post: PUSH, BL dest_addr, POP
\* appended to the nested writer; Panic when a BL cannot be encoded
RECURSIVE write_callbacks(_, _)
write_callbacks(extra_writer, callbacks) ==
    IF callbacks = <<>> THEN [res |-> Ok, w |-> extra_writer]
    ELSE LET pushed == write_end(extra_writer, to_le_bytes(PushAll)).w
             bl == make_branch_u32(TRUE, end_address(pushed), Head(callbacks), AL)
         IN  IF bl = None THEN [res |-> Panic, w |-> pushed]
             ELSE write_callbacks(
                      write_end(write_end(pushed, to_le_bytes(bl[1])).w,
                                to_le_bytes(PopAll)).w,
                      Tail(callbacks))

\* mutant of hook_closure: the instruction is read after the redirect is written
hook_closure_read_late(w, extra_writer, from_address, entry) ==
    LET jump == make_branch_u32(FALSE, from_address, extra_writer.base_address, AL)
        wr == write(w, from_address, to_le_bytes(jump[1]))
        rd == read(wr.w, from_address, 4)
        pre == write_callbacks(extra_writer, entry.pre)
        relocated == relocate_u32(from_le_bytes(rd.data), from_address, end_address(pre.w))
        post == write_callbacks(write_end(pre.w, to_le_bytes(relocated[1])).w, entry.post)
        back == make_branch_u32(FALSE, end_address(post.w), from_address + 4, AL)
    IN  IF \/ jump = None
           \/ wr.res # Ok
           \/ pre.res # Ok
           \/ relocated = None
           \/ post.res # Ok
           \/ back = None
        THEN [res |-> Panic, outer |-> w, nested |-> extra_writer]
        ELSE [res |-> Ok, outer |-> wr.w,
              nested |-> write_end(post.w, to_le_bytes(back[1])).w]

\* the closure handed to write_extra for one entry (main.rs:710-817): every
\* failure inside it is an unwrap of None or of Err, a panic
hook_closure(w, extra_writer, from_address, entry) ==
    LET rd == read(w, from_address, 4)
        jump == make_branch_u32(FALSE, from_address, extra_writer.base_address, AL)
        wr == write(w, from_address, to_le_bytes(jump[1]))
        pre == write_callbacks(extra_writer, entry.pre)
        relocated == relocate_u32(from_le_bytes(rd.data), from_address, end_address(pre.w))
        post == write_callbacks(write_end(pre.w, to_le_bytes(relocated[1])).w, entry.post)
        back == make_branch_u32(FALSE, end_address(post.w), from_address + 4, AL)
    IN  IF rd.res # Ok THEN [res |-> Panic, outer |-> w, nested |-> extra_writer]
        ELSE IF jump = None THEN [res |-> Panic, outer |-> w, nested |-> extra_writer]
        ELSE IF wr.res # Ok THEN [res |-> Panic, outer |-> w, nested |-> extra_writer]
        ELSE IF pre.res # Ok THEN [res |-> Panic, outer |-> wr.w, nested |-> pre.w]
        ELSE IF relocated = None THEN [res |-> Panic, outer |-> wr.w, nested |-> pre.w]
        ELSE IF post.res # Ok THEN [res |-> Panic, outer |-> wr.w, nested |-> post.w]
        ELSE IF back = None THEN [res |-> Panic, outer |-> wr.w, nested |-> post.w]
        ELSE [res |-> Ok, outer |-> wr.w,
              nested |-> write_end(post.w, to_le_bytes(back[1])).w]

\* writer.write_extra(entry.extra_pos, |writer, extra_writer| ...).unwrap() for
\* one entry: write_extra with hook_closure as its closure, and Panic for the
\* unwrap of an Err
patch_entry(w, from_address, entry) ==
    LET address == extra_address(w, entry.extra_pos) IN
    IF address = None
    THEN [res |-> Panic, w |-> w, base |-> None]
    ELSE LET c == hook_closure(w, new(address[1], <<>>), from_address, entry) IN
         IF c.res # Ok
         THEN [res |-> Panic, w |-> c.outer, base |-> address]
         ELSE LET r == commit_extra(c.outer, entry.extra_pos, address[1], c.nested.buffer)
              IN  [res |-> IF r.res # Ok THEN Panic ELSE Ok, w |-> r.w, base |-> address]

(* --------------------------- run(): actions ---------------------------- *)

\* the number of callbacks in the table
HookCount(m) ==
    Cardinality(UNION {{<<k, "pre", i>> : i \in 1..Len(m[k].pre)} : k \in DOMAIN m})
        + Cardinality(UNION {{<<k, "post", i>> : i \in 1..Len(m[k].post)} : k \in DOMAIN m})

\* the addresses of the callbacks that hook symbols name: functions of the custom text
SymbolAddresses == {custom_text_address}
\* the values of the opcode key of a softbranch entry
Opcodes == {"pre", "post", "replace"}

\* run() up to the section loop: the writer over original/code.bin
InitBuild ==
    /\ writer = new(CodeBase, OriginalCode)
    /\ last = [op |-> "new", res |-> "Ok"]
    /\ written = {}
    /\ elf \in Elfs
    /\ pre_post_entries = <<>>
    /\ phase = "sections"
    /\ error = None
    /\ todo = {}
    /\ placed = <<>>
    /\ code_bin = None
    /\ exheader_bin = None
    /\ NoPool

\* the state after the section loop ended with r
Emitted(r) ==
    /\ writer' = r.w
    /\ IF r.res = Ok THEN phase' = "symbols" /\ UNCHANGED error
       ELSE error' = r.res /\ UNCHANGED phase

\* the section loop (main.rs:352-379)
EmitSections ==
    /\ phase = "sections" /\ error = None
    /\ Emitted(emit_sections(writer, elf))
    /\ UNCHANGED <<last, written, elf, pre_post_entries, todo, placed, code_bin,
                   exheader_bin, poolVars>>

\* one Pre or Post hook symbol of the symbol loop
SymbolHook(kind, from_addr, address) ==
    /\ phase = "symbols" /\ error = None
    /\ HookCount(pre_post_entries) < MaxHooks
    /\ LET r == symbol_hook(pre_post_entries, kind, from_addr, address) IN
       /\ pre_post_entries' = r.entries
       /\ error' = IF r.res = Ok THEN None ELSE r.res
    /\ UNCHANGED <<writerVars, elf, phase, todo, placed, code_bin, exheader_bin, poolVars>>

\* the symbol loop ends, the .hks files are read
EndSymbols ==
    /\ phase = "symbols" /\ error = None
    /\ phase' = "hks"
    /\ UNCHANGED <<writerVars, elf, pre_post_entries, error, todo, placed, code_bin, exheader_bin, poolVars>>

\* one softbranch entry of a .hks file
HksSoftbranch(opcode_pos, address, to_address) ==
    /\ phase = "hks" /\ error = None
    /\ HookCount(pre_post_entries) < MaxHooks
    /\ LET r == hks_softbranch(pre_post_entries, opcode_pos, address, to_address) IN
       /\ pre_post_entries' = r.entries
       /\ error' = IF r.res = Ok THEN None ELSE r.res
    /\ UNCHANGED <<writerVars, elf, phase, todo, placed, code_bin, exheader_bin, poolVars>>

\* the last .hks entry is done
EndHks ==
    /\ phase = "hks" /\ error = None
    /\ phase' = "place"
    /\ UNCHANGED <<writerVars, elf, pre_post_entries, error, todo, placed, code_bin, exheader_bin, poolVars>>

\* loader and custom text placement; the iteration over the table starts
PlaceSections ==
    /\ phase = "place" /\ error = None
    /\ LET r == place_sections(writer, elf) IN
       /\ writer' = r.w
       /\ IF r.res = Ok
          THEN phase' = "patch" /\ todo' = DOMAIN pre_post_entries /\ UNCHANGED error
          ELSE error' = r.res /\ UNCHANGED <<phase, todo>>
    /\ UNCHANGED <<last, written, elf, pre_post_entries, placed, code_bin, exheader_bin, poolVars>>

\* one turn of for (from_address, entry) in &pre_post_entries: the HashMap
\* yields its keys in an order the program does not choose
PatchEntry(from_address) ==
    /\ phase = "patch" /\ error = None
    /\ from_address \in todo
    /\ LET r == patch_entry(writer, from_address, pre_post_entries[from_address]) IN
       /\ writer' = r.w
       /\ IF r.res = Ok
          THEN /\ todo' = todo \ {from_address}
               /\ placed' = (from_address :>
                                 [base |-> r.base[1],
                                  original |-> from_le_bytes(read(writer, from_address, 4).data)])
                             @@ placed
               /\ UNCHANGED error
          ELSE error' = Panic /\ UNCHANGED <<todo, placed>>
    /\ UNCHANGED <<last, written, elf, pre_post_entries, phase, code_bin, exheader_bin, poolVars>>

\* mutant of WriteOutput: the files are written whether or not the loop over
\* the table has ended, and after an error as well
WriteOutputAnyway ==
    /\ phase \in {"place", "patch"}
    /\ code_bin' = Some(writer.buffer)
    /\ exheader_bin' = Some(finalize_exheader(exheader, writer))
    /\ phase' = "exit"
    /\ UNCHANGED <<writerVars, elf, pre_post_entries, error, todo, placed, poolVars>>

\* std::fs::write("build/code.bin", writer.data()), then the exheader with
\* its sizes brought up to date written to build/exheader.bin
WriteOutput ==
    /\ phase = "patch" /\ error = None
    /\ todo = {}
    /\ code_bin' = Some(writer.buffer)
    /\ exheader_bin' = Some(finalize_exheader(exheader, writer))
    /\ phase' = "exit"
    /\ UNCHANGED <<writerVars, elf, pre_post_entries, error, todo, placed, poolVars>>

NextBuild ==
    \/ EmitSections
    \/ \E kind \in {"Pre", "Post"}, f \in HookSites, a \in SymbolAddresses :
           SymbolHook(kind, f, a)
    \/ EndSymbols
    \/ \E o \in Opcodes, f \in HookSites, a \in Callbacks : HksSoftbranch(o, f, a)
    \/ EndHks
    \/ PlaceSections
    \/ \E f \in HookSites : PatchEntry(f)
    \/ WriteOutput

SpecBuild == InitBuild /\ [][NextBuild]_vars

(* --------------------------- run(): claims ----------------------------- *)

DifferentSections == Hook("Pre/post hooks are in different sections")
InvalidOpcodePosition == Hook("Invalid opcode position")

\* C11 (as claimed): when the iteration over the table starts, every entry,
\* whether a hook symbol or a .hks softbranch entry made it, has extra_pos
\* Loader iff its hook site from_addr lies below custom_text_address, and Tail
\* otherwise.
C11_ArenaFollowsHookSite ==
    phase = "patch" =>
        \A f \in DOMAIN pre_post_entries :
            /\ pre_post_entries[f].extra_pos = Loader <=> f < custom_text_address
            /\ pre_post_entries[f].extra_pos = TailPos <=> f >= custom_text_address

\* C12: the table holds one entry per from_addr, and the extra_pos of an entry
\* never changes once the entry exists; a hook for a from_addr that has an
\* entry of the other arena ends the build with the 'are in different
\* sections' hook error and leaves the pre and post lists as they were.
C12_OneArenaPerHookSite ==
    /\ [](/\ phase = "symbols" =>
                \A k \in {"Pre", "Post"}, f \in DOMAIN pre_post_entries,
                   a \in SymbolAddresses :
                    arena_of(f) # pre_post_entries[f].extra_pos
                    => symbol_hook(pre_post_entries, k, f, a)
                           = [res |-> DifferentSections, entries |-> pre_post_entries]
          /\ phase = "hks" =>
                \A o \in Opcodes, f \in DOMAIN pre_post_entries, a \in Callbacks :
                    arena_of(a) # pre_post_entries[f].extra_pos
                    => hks_softbranch(pre_post_entries, o, f, a)
                           = [res |-> DifferentSections, entries |-> pre_post_entries])
    /\ [][/\ \A f \in DOMAIN pre_post_entries :
                /\ f \in DOMAIN pre_post_entries'
                /\ pre_post_entries'[f].extra_pos = pre_post_entries[f].extra_pos
          /\ error' = DifferentSections => pre_post_entries' = pre_post_entries
         ]_vars

\* a softbranch for a hook site whose entry lies in the other arena was refused
C12_Witness ==
    /\ error = DifferentSections
    /\ \E f \in DOMAIN pre_post_entries :
          pre_post_entries[f].extra_pos = Loader /\ pre_post_entries[f].pre # <<>>

\* the little-endian word at address a of the image of w
WordAt(w, a) == from_le_bytes(read(w, a, 4).data)

\* the 24 offset bits of a branch as a signed number, and the address a branch
\* word executed at address at transfers control to
signext24(lo) == IF lo >= 8388608 THEN lo - 16777216 ELSE lo
BranchTarget(word, at) == at + 8 + 4 * signext24(word.lo)

\* PUSH {r0-r12, lr} (0xE92D5FFF), BL callback, POP {r0-r12, lr} (0xE8BD5FFF)
\* stand at at, at + 4 and at + 8
Triple(w, at, callback) ==
    /\ WordAt(w, at) = U32(233, 2973695)
    /\ WordAt(w, at + 4).hi = 235
    /\ BranchTarget(WordAt(w, at + 4), at + 4) = callback
    /\ WordAt(w, at + 8) = U32(232, 12410879)

\* the image of w holds at base the trampoline of entry e of hook site f whose
\* instruction was original
Layout(w, f, e, base, original) ==
    LET p == Len(e.pre)
        q == Len(e.post)
        mid == base + 12 * p
        back == mid + 4 + 12 * q
    IN  /\ \A i \in 1..p : Triple(w, base + 12 * (i - 1), e.pre[i])
        /\ Some(WordAt(w, mid)) = relocate_u32(original, f, mid)
        /\ \A i \in 1..q : Triple(w, mid + 4 + 12 * (i - 1), e.post[i])
        /\ WordAt(w, back).hi = 234
        /\ BranchTarget(WordAt(w, back), back) = f + 4

\* the size of the trampoline of entry e
TrampolineSize(e) == 4 * (3 * Len(e.pre) + 3 * Len(e.post) + 2)

\* the number of bytes by which a step grows the arena pos
Grown(pos) ==
    IF pos = Loader
    THEN writer'.loader_extra_address[1] - writer.loader_extra_address[1]
    ELSE end_address(writer') - end_address(writer)

C14_RedirectAndRelocatedWord ==
    /\ [][\A f \in DOMAIN placed' \ DOMAIN placed :
             LET mid == placed'[f].base + 12 * Len(pre_post_entries[f].pre) IN
             /\ Some(WordAt(writer', mid)) = relocate_u32(WordAt(writer, f), f, mid)
             /\ WordAt(writer', f).hi = 234
             /\ BranchTarget(WordAt(writer', f), f) = placed'[f].base
         ]_vars
    /\ [](phase = "exit" =>
            \A f \in DOMAIN pre_post_entries :
                LET word == from_le_bytes(SubSeq(code_bin[1], f - CodeBase + 1,
                                                 f - CodeBase + 4))
                IN  /\ word.hi = 234
                    /\ BranchTarget(word, f) = placed[f].base)

\* the build ended well with the branch instruction of the original text
\* (CodeBase + 4) hooked: its relocation differs from the word itself
C14_Witness ==
    /\ phase = "exit"
    /\ CodeBase + 4 \in DOMAIN placed
    /\ placed[CodeBase + 4].original = U32(234, 1)

\* the pre and post lists of hook site f in table m, empty when f has no entry
PreOf(m, f) == IF f \in DOMAIN m THEN m[f].pre ELSE <<>>
PostOf(m, f) == IF f \in DOMAIN m THEN m[f].post ELSE <<>>

C16_PatchFailureIsBuildError ==
    (phase = "patch" /\ error # None) => error.tag \in {"Hook", "Fatal"}

\* the keys of S in ascending order: one of the orders a HashMap may yield
RECURSIVE Ascending(_)
Ascending(S) ==
    IF S = {} THEN <<>>
    ELSE LET m == CHOOSE x \in S : \A y \in S : x <= y IN <<m>> \o Ascending(S \ {m})

\* the loop over the table run in the given order of its keys
RECURSIVE patch_in_order(_, _, _)
patch_in_order(w, entries, order) ==
    IF order = <<>> THEN [res |-> Ok, w |-> w]
    ELSE LET r == patch_entry(w, Head(order), entries[Head(order)]) IN
         IF r.res # Ok THEN [res |-> Panic, w |-> r.w]
         ELSE patch_in_order(r.w, entries, Tail(order))

\* the writer when the loop over the table starts, for the sections of e
PlacedImage(e) ==
    place_sections(emit_sections(new(CodeBase, OriginalCode), e).w, e).w

\* the run that yields the keys of the table in ascending order
AscendingRun ==
    patch_in_order(PlacedImage(elf), pre_post_entries, Ascending(DOMAIN pre_post_entries))

\* C17 (as claimed): the bytes of build/code.bin do not depend on the order in
\* which the table yields its entries: a run that writes code.bin writes the
\* bytes the run in ascending order of from_addr writes.
C17_OutputIndependentOfOrder ==
    (phase = "exit" /\ AscendingRun.res = Ok) => code_bin = Some(AscendingRun.w.buffer)

\* C18 (as claimed): whatever order the table yields its entries in, the loop
\* succeeds or fails alike, and when it succeeds the trampolines occupy
\* pairwise disjoint address ranges and every hook site holds a branch to a
\* trampoline that calls that site's pre callbacks, runs that site's relocated
\* instruction, calls its post callbacks and returns to from_addr + 4.
C18_PatchIndependentOfOrder ==
    (phase = "patch" /\ (error # None \/ todo = {})) =>
        /\ error = None <=> AscendingRun.res = Ok
        /\ error = None =>
            /\ \A f, g \in DOMAIN placed :
                  f # g =>
                     \/ placed[f].base + TrampolineSize(pre_post_entries[f])
                            <= placed[g].base
                     \/ placed[g].base + TrampolineSize(pre_post_entries[g])
                            <= placed[f].base
            /\ \A f \in DOMAIN placed :
                  /\ WordAt(writer, f).hi = 234
                  /\ BranchTarget(WordAt(writer, f), f) = placed[f].base
                  /\ Layout(writer, f, pre_post_entries[f], placed[f].base,
                            placed[f].original)

(* ----------------------- src/worker_pool.rs ---------------------------- *)

\* the largest number of workers of a pool, and of tasks submitted to it
MaxWorkers == 2
MaxTasks == 3

\* TaskResult
TaskOk == "Ok"
Terminate == "Terminate"
TaskResult == {TaskOk, Terminate}

\* WorkerMessage: Task(F), where the closure is known by the index of the task
\* in tasks, and Poke
Task(t) == [kind |-> "Task", task |-> t]
Poke == [kind |-> "Poke"]

\* the Receiver lives in the Arc that the closures of the worker threads hold:
\* it is dropped with the last worker thread that leaves its loop
receiver_alive(w) == \E i \in DOMAIN w : w[i].pc # "exit"

\* mpsc::Sender::send: the channel with the message appended, Err when the
\* Receiver is gone
send(ch, w, msg) ==
    IF receiver_alive(w) THEN [res |-> "Ok", ch |-> Append(ch, msg)]
    ELSE [res |-> "Err", ch |-> ch]

\* n times send(Poke), under the lock of the Sender
RECURSIVE send_pokes(_, _, _)
send_pokes(ch, w, n) ==
    IF n = 0 THEN ch ELSE send_pokes(send(ch, w, Poke).ch, w, n - 1)

\* WorkerPool::send_poke, its result dropped by .ok(): a Poke per worker
send_poke(ch, w) == send_pokes(ch, w, Len(w))

\* mutant of all_joined: only the first worker is joined
first_joined(w) == w[1].pc = "exit"

\* for worker in &mut self.workers { worker.join() } has returned: every
\* worker thread has ended
all_joined(w) == \A i \in DOMAIN w : w[i].pc = "exit"

\* the value wait() returns once the workers are joined
wait_result(flag) == IF flag THEN Terminate ELSE TaskOk

\* mutant of flag_after_task: a task that returns Terminate leaves the flag alone
flag_after_task_kept(flag, result) == flag

\* the terminate flag once a task has returned result
flag_after_task(flag, result) == IF result = Terminate THEN TRUE ELSE flag

\* mutant of after_check: the terminate flag is not looked at
after_check_flag_ignored(flag, msg) ==
    IF msg = Poke THEN [pc |-> "exit", msg |-> None]
    ELSE [pc |-> "run", msg |-> Some(msg)]

\* the worker once it holds msg: if *terminate.lock().unwrap() { break }, then
\* the match on the message: a Poke ends the loop, a Task is called
after_check(flag, msg) ==
    IF flag THEN [pc |-> "exit", msg |-> None]
    ELSE IF msg = Poke THEN [pc |-> "exit", msg |-> None]
    ELSE [pc |-> "run", msg |-> Some(msg)]

\* WorkerPool::new(num_workers): the threads are spawned and block in recv
InitPool ==
    /\ \E num_workers \in 1..MaxWorkers :
          workers = [i \in 1..num_workers |-> [pc |-> "recv", msg |-> None]]
    /\ channel = <<>>
    /\ terminate = FALSE
    /\ tasks = <<>>
    /\ main = [pc |-> "submit", terminate_called |-> FALSE, result |-> None,
               poisoned |-> FALSE]
    /\ writer = new(CodeBase, <<>>)
    /\ last = [op |-> "new", res |-> "Ok"]
    /\ written = {}
    /\ NoBuild

\* the id the thread of workers[i] passes to its tasks: 0..num_workers - 1
WorkerId(i) == i - 1

\* let msg = rx.lock().unwrap().recv().unwrap()
WorkerRecv(i) ==
    /\ workers[i].pc = "recv"
    /\ channel # <<>>
    /\ workers' = [workers EXCEPT ![i] = [pc |-> "check", msg |-> Some(Head(channel))]]
    /\ channel' = Tail(channel)
    /\ UNCHANGED <<terminate, tasks, main, writerVars, buildVars>>

\* if *terminate.lock().unwrap() { break } and the match on the message: a
\* Poke ends the loop, a Task is called
WorkerCheck(i) ==
    /\ workers[i].pc = "check"
    /\ workers' = [workers EXCEPT ![i] = after_check(terminate, workers[i].msg[1])]
    /\ UNCHANGED <<channel, terminate, tasks, main, writerVars, buildVars>>

\* task(id) returns: Ok leads back to recv, Terminate sets the flag
WorkerTask(i) ==
    /\ workers[i].pc = "run"
    /\ LET t == workers[i].msg[1].task IN
       /\ tasks' = [tasks EXCEPT ![t].runs = Append(@, WorkerId(i))]
       /\ terminate' = flag_after_task(terminate, tasks[t].result)
       /\ workers' = [workers EXCEPT ![i] =
                         IF tasks[t].result = Terminate
                         THEN [pc |-> "poke", msg |-> None]
                         ELSE [pc |-> "recv", msg |-> None]]
    /\ UNCHANGED <<channel, main, writerVars, buildVars>>

\* for _ in 1..num_workers { tx.send(Poke).ok() }; break
WorkerPoke(i) ==
    /\ workers[i].pc = "poke"
    /\ channel' = send_pokes(channel, workers, Len(workers) - 1)
    /\ workers' = [workers EXCEPT ![i] = [pc |-> "exit", msg |-> None]]
    /\ UNCHANGED <<terminate, tasks, main, writerVars, buildVars>>

\* pool.submit_task(task_fn): self.tx.lock().unwrap().send(Task(task_fn)).unwrap().
\* The unwrap of an Err panics while the guard of the Sender's mutex is alive:
\* the mutex is poisoned.
SubmitTask(result) ==
    /\ main.pc = "submit"
    /\ Len(tasks) < MaxTasks
    /\ LET r == send(channel, workers, Task(Len(tasks) + 1)) IN
       /\ channel' = r.ch
       /\ main' = IF r.res = "Ok" THEN main
                  ELSE [main EXCEPT !.pc = "panicked", !.poisoned = TRUE]
    /\ tasks' = Append(tasks, [result |-> result, runs |-> <<>>])
    /\ UNCHANGED <<terminate, workers, writerVars, buildVars>>

\* pool.terminate()
TerminateCall ==
    /\ main.pc = "submit"
    /\ ~main.terminate_called
    /\ terminate' = TRUE
    /\ channel' = send_poke(channel, workers)
    /\ main' = [main EXCEPT !.terminate_called = TRUE]
    /\ UNCHANGED <<workers, tasks, writerVars, buildVars>>

\* pool.wait(), first half: self.send_poke().ok()
WaitPoke ==
    /\ main.pc = "submit"
    /\ channel' = send_poke(channel, workers)
    /\ main' = [main EXCEPT !.pc = "join"]
    /\ UNCHANGED <<terminate, workers, tasks, writerVars, buildVars>>

\* pool.wait(), second half: every worker is joined, the flag is read
WaitJoin ==
    /\ main.pc = "join"
    /\ all_joined(workers)
    /\ main' = [main EXCEPT !.pc = "returned", !.result = Some(wait_result(terminate))]
    /\ UNCHANGED <<channel, terminate, workers, tasks, writerVars, buildVars>>

\* Drop for WorkerPool: self.wait(), when the pool goes out of scope after
\* wait() has returned or while the panic of submit_task unwinds.  First half:
\* send_poke locks the Sender's mutex and unwraps the result, which on a
\* poisoned mutex is a panic inside a destructor: the process aborts.
DropPoke ==
    /\ main.pc \in {"returned", "panicked"}
    /\ IF main.poisoned
       THEN main' = [main EXCEPT !.pc = "aborted"] /\ UNCHANGED channel
       ELSE /\ channel' = send_poke(channel, workers)
            /\ main' = [main EXCEPT !.pc = "drop_join"]
    /\ UNCHANGED <<terminate, workers, tasks, writerVars, buildVars>>

\* Drop for WorkerPool, second half: the joins of wait()
DropJoin ==
    /\ main.pc = "drop_join"
    /\ all_joined(workers)
    /\ main' = [main EXCEPT !.pc = "dropped"]
    /\ UNCHANGED <<channel, terminate, workers, tasks, writerVars, buildVars>>

NextPool ==
    \/ \E i \in DOMAIN workers : WorkerRecv(i)
    \/ \E i \in DOMAIN workers : WorkerCheck(i)
    \/ \E i \in DOMAIN workers : WorkerTask(i)
    \/ \E i \in DOMAIN workers : WorkerPoke(i)
    \/ \E r \in TaskResult : SubmitTask(r)
    \/ TerminateCall
    \/ WaitPoke
    \/ WaitJoin
    \/ DropPoke
    \/ DropJoin

SpecPool == InitPool /\ [][NextPool]_vars

\* The pool under a scheduler that lets every thread that can take a step take
\* one: every task returns, every worker thread gets to run, and the main
\* thread, once inside wait() or past it, goes on.
WorkerStep(i) ==
    /\ i \in DOMAIN workers
    /\ (WorkerRecv(i) \/ WorkerCheck(i) \/ WorkerTask(i) \/ WorkerPoke(i))

SpecPoolFair ==
    /\ InitPool /\ [][NextPool]_vars
    /\ \A i \in 1..MaxWorkers : WF_vars(WorkerStep(i))
    /\ WF_vars(WaitJoin)
    /\ WF_vars(DropPoke)
    /\ WF_vars(DropJoin)

(* ------------------------ worker pool: claims -------------------------- *)

\* the number of places that hold task t: the channel, and the workers that
\* have received it and not yet returned from it
Pending(t) ==
    Cardinality({k \in 1..Len(channel) : channel[k] = Task(t)})
        + Cardinality({i \in DOMAIN workers : workers[i].msg = Some(Task(t))})

\* C19: while no submitted task returns Terminate and terminate() is not
\* called, every submitted task is either still pending or has been run once,
\* by a worker whose id lies in [0, num_workers), never both and never twice;
\* submit_task does not fail; and when wait() returns it returns Ok and every
\* submitted task has been run exactly once.
C19_EveryTaskRunsOnce ==
    ((\A t \in DOMAIN tasks : tasks[t].result = TaskOk) /\ ~main.terminate_called)
    => /\ main.pc # "panicked"
       /\ \A t \in DOMAIN tasks :
             /\ Pending(t) + Len(tasks[t].runs) = 1
             /\ \A k \in 1..Len(tasks[t].runs) :
                   tasks[t].runs[k] \in 0..(Len(workers) - 1)
       /\ main.pc = "returned" =>
             /\ main.result = Some(TaskOk)
             /\ \A t \in DOMAIN tasks : Len(tasks[t].runs) = 1

\* wait() has returned Ok after two workers shared the tasks
C19_Witness ==
    /\ main.pc = "returned" /\ main.result = Some(TaskOk)
    /\ ~main.terminate_called
    /\ Len(tasks) >= 2
    /\ \A t \in DOMAIN tasks : tasks[t].result = TaskOk
    /\ \E t, u \in DOMAIN tasks : tasks[t].runs # tasks[u].runs

\* some task that was run returned Terminate
TerminateReturned ==
    \E t \in DOMAIN tasks : tasks[t].result = Terminate /\ tasks[t].runs # <<>>

\* C20: wait() returns Terminate iff, before it returned, a task that was run
\* returned Terminate or terminate() was called, and Ok otherwise; the
\* terminate flag is set exactly then and is never reset.
C20_WaitReportsTerminate ==
    /\ [](main.pc = "returned" =>
            /\ main.result \in {Some(TaskOk), Some(Terminate)}
            /\ main.result = Some(Terminate)
                  <=> (TerminateReturned \/ main.terminate_called))
    /\ [](terminate <=> (TerminateReturned \/ main.terminate_called))
    /\ [][terminate => terminate']_vars

\* wait() has returned Terminate because of a task, and a task submitted
\* before it was never run
C20_Witness ==
    /\ main.pc = "returned" /\ main.result = Some(Terminate)
    /\ ~main.terminate_called
    /\ \E t \in DOMAIN tasks : tasks[t].runs = <<>>

\* task t has been started: a worker passed the flag check with it
Started(t) ==
    \/ tasks[t].runs # <<>>
    \/ \E i \in DOMAIN workers : workers[i].pc = "run" /\ workers[i].msg = Some(Task(t))

\* C21: once the terminate flag is set no worker starts another task: a worker
\* that looks at a received message afterwards exits without running it, and
\* a task that was not started when the flag was set, or is submitted later,
\* is never started.
C21_NoStartAfterTerminate ==
    [][terminate =>
          /\ \A i \in DOMAIN workers :
                (workers[i].pc = "check" /\ workers'[i] # workers[i])
                    => workers'[i] = [pc |-> "exit", msg |-> None]
          /\ \A i \in DOMAIN workers :
                workers[i].pc # "run" => workers'[i].pc # "run"
          /\ \A t \in DOMAIN tasks' :
                (t \notin DOMAIN tasks \/ ~Started(t)) => ~Started(t)']_vars

\* a task returned Terminate, and a worker that received a queued task after
\* the flag was set has exited without running it
C21_Witness ==
    /\ terminate /\ TerminateReturned /\ ~main.terminate_called
    /\ \E t \in DOMAIN tasks :
          /\ tasks[t].runs = <<>>
          /\ Pending(t) = 0
    /\ \E i \in DOMAIN workers : workers[i].pc = "exit"

\* every wait() that is entered returns: the explicit call, and the one Drop
\* makes afterwards
WaitReturns ==
    /\ main.pc = "join" ~> main.pc = "returned"
    /\ main.pc = "returned" ~> main.pc = "dropped"

\* C22: wait() always returns, in every interleaving of the workers and the
\* main thread: the call the main thread makes, and the second one Drop makes,
\* whichever way the pool goes out of scope.
C22_WaitAlwaysReturns ==
    /\ [](main.pc # "aborted")
    /\ WaitReturns

(***************************************************************************)
(* The ARM encoder as pure functions (hook/arm.rs): make_branch_u32 and    *)
(* relocate_u32 applied to inputs drawn from bounded sets.  last holds the *)
(* call and its result.                                                    *)
(***************************************************************************)

\* how many words around each base address, and around each boundary of the
\* offset field, the inputs cover
MaxDelta == 3

\* base addresses 0x1000 + 0, 32 MiB, 64 MiB, 128 MiB: their distances reach
\* both ends of the signed 24-bit word offset and of the range the code accepts
ArmBases == {4096, 4096 + 33554432, 4096 + 67108864, 4096 + 134217728}

\* u32 addresses: 0 and the words around each base
AlignedAddresses ==
    {0} \cup {b + 4 * k : b \in ArmBases, k \in (0 - MaxDelta)..MaxDelta}

\* the same with addresses that are not multiples of 4
ArmAddresses == AlignedAddresses \cup {a + 1 : a \in AlignedAddresses}

\* enum ArmCondition: EQ, LT, AL
ArmConditions == {0, 11, AL}

\* the 24 offset bits of a word: around 0, around the sign change at 2^23 and
\* around 2^24 - 1
OffsetFields ==
    UNION {{k, 8388607 - k, 8388608 + k, 16777215 - k} : k \in 0..MaxDelta}

\* instruction words: B, BL, BNE and two words that are no branch (mov r0, r0
\* and ldr: 0xE1......, 0xE5......)
ArmWords == {U32(hi, lo) : hi \in {234, 235, 26, 225, 229}, lo \in OffsetFields}

\* the arguments of one call, not yet made
BranchCalls ==
    [op : {"arguments"}, fn : {"make_branch_u32"}, link : BOOLEAN,
     from_addr : ArmAddresses, to_addr : ArmAddresses,
     condition : ArmConditions, res : {None}]
RelocateCalls ==
    [op : {"arguments"}, fn : {"relocate_u32"}, val : ArmWords,
     src_address : AlignedAddresses, dest_address : AlignedAddresses,
     res : {None}]

InitArm ==
    /\ writer = new(CodeBase, <<>>)
    /\ last \in BranchCalls \cup RelocateCalls
    /\ written = {}
    /\ NoBuild
    /\ NoPool

\* make_branch_u32(link, from_addr, to_addr, condition)
MakeBranch ==
    /\ last.op = "arguments" /\ last.fn = "make_branch_u32"
    /\ last' = [last EXCEPT
                  !.op = "make_branch_u32",
                  !.res = make_branch_u32(last.link, last.from_addr, last.to_addr,
                                          last.condition)]
    /\ UNCHANGED <<writer, written, buildVars, poolVars>>

\* relocate_u32(val, src_address, dest_address)
Relocate ==
    /\ last.op = "arguments" /\ last.fn = "relocate_u32"
    /\ last' = [last EXCEPT
                  !.op = "relocate_u32",
                  !.res = relocate_u32(last.val, last.src_address, last.dest_address)]
    /\ UNCHANGED <<writer, written, buildVars, poolVars>>

NextArm ==
    \/ MakeBranch
    \/ Relocate

SpecArm == InitArm /\ [][NextArm]_vars

\* the offsets a signed 24-bit field holds
Signed24 == (0 - 8388608)..8388607

\* the last call was make_branch_u32(link, from_addr, to_addr, condition)
LastBranch(link, from_addr, to_addr, condition) ==
    /\ last.op = "make_branch_u32"
    /\ last.link = link /\ last.from_addr = from_addr
    /\ last.to_addr = to_addr /\ last.condition = condition

\* the general part of C27: the fields of the word, and the round trip
BranchFields ==
    last.op = "make_branch_u32" =>
        LET off == (last.to_addr \div 4) - (last.from_addr \div 4) - 2 IN
        /\ off \in Signed24 => last.res # None
        /\ last.res # None =>
              LET word == last.res[1] IN
              /\ (word.hi \div 2) % 8 = 5
              /\ word.hi % 2 = (IF last.link THEN 1 ELSE 0)
              /\ word.hi \div 16 = last.condition
              /\ word.lo = off % 16777216
              /\ (last.to_addr % 4 = last.from_addr % 4 /\ off \in Signed24)
                    => BranchTarget(word, last.from_addr) = last.to_addr

\* make_branch(false, 0x1000, 0x1008, AL) = 0xEA000000
BranchExampleForward ==
    LastBranch(FALSE, 4096, 4104, AL) => last.res = Some(U32(234, 0))

\* C27 as stated: the fields and the round trip of make_branch, with
\* make_branch(false, 0x1000, 0x1008, AL) = 0xEA000000 and
\* make_branch(true, 0x1000, 0, AL) = 0xEBFFFFFE.
C27_BranchEncodingAsStated ==
    /\ BranchFields
    /\ BranchExampleForward
    /\ LastBranch(TRUE, 4096, 0, AL) => last.res = Some(U32(235, 16777214))

\* C27 (amended): make_branch computes off = (to/4) - (from/4) - 2 and, for
\* off in the signed 24-bit range, returns a word with bits 27..25 = 101,
\* bit 24 = link, bits 31..28 = cond and bits 23..0 = off mod 2^24, whose
\* destination from + 8 + 4 * signext24 is to when to = from (mod 4);
\* make_branch(false, 0x1000, 0x1008, AL) = 0xEA000000 and
\* make_branch(true, 0x1000, 0, AL) = 0xEBFFFBFE (off = -1026).
C27_BranchEncoding ==
    /\ BranchFields
    /\ BranchExampleForward
    /\ LastBranch(TRUE, 4096, 0, AL) => last.res = Some(U32(235, 16776190))

\* the backward example has been computed
C27_Witness ==
    /\ LastBranch(TRUE, 4096, 0, AL)
    /\ last.res # None
    /\ BranchTarget(last.res[1], 4096) = 0

\* the last call was relocate_u32 of a B/BL word whose destination is an
\* address
LastRelocateBranch ==
    /\ last.op = "relocate_u32"
    /\ last.val.hi % 16 \in {10, 11}
    /\ BranchTarget(last.val, last.src_address) >= 0

\* C28: a B/BL word that relocate returns keeps its top 8 bits and, executed
\* at dst, has the destination the original word has at src, forward and
\* backward branches alike; a word that is not B/BL is returned unchanged.
C28_RelocateKeepsDestination ==
    /\ (LastRelocateBranch /\ last.res # None) =>
          /\ last.res[1].hi = last.val.hi
          /\ BranchTarget(last.res[1], last.dest_address)
                = BranchTarget(last.val, last.src_address)
    /\ (last.op = "relocate_u32" /\ last.val.hi % 16 \notin {10, 11}) =>
          last.res = Some(last.val)

\* C29: relocate returns none only when the new offset is out of range: when
\* the offset from dst to the original destination fits the signed 24-bit
\* field it returns a word; and relocate(w, a, a) = w.
C29_RelocateFailsOnlyOutOfRange ==
    /\ LastRelocateBranch =>
          LET needed == (BranchTarget(last.val, last.src_address)
                            - last.dest_address - 8) \div 4
          IN  needed \in Signed24 => last.res # None
    /\ (last.op = "relocate_u32" /\ last.src_address = last.dest_address) =>
          last.res = Some(last.val)

(***************************************************************************)
(* The hook tag parser (hook/meta.rs, hook/info.rs, hook/kind.rs,          *)
(* hook/util.rs): HookInfo::from_str applied to strings over a small       *)
(* alphabet.  A string is a sequence of characters.                        *)
(***************************************************************************)

\* the longest tag; "b$1$$1$1" is the shortest one that parses
MaxTag == 8

\* the separator, a letter (a branch kind; no decimal digit, no base32 symbol)
\* and a digit (no base32 symbol either)
TagChars == {"$", "b", "1"}

RECURSIVE StringsUpTo(_, _)
StringsUpTo(chars, n) ==
    IF n = 0 THEN {<<>>}
    ELSE LET shorter == StringsUpTo(chars, n - 1) IN
         shorter \cup {Append(t, c) : t \in {u \in shorter : Len(u) = n - 1}, c \in chars}

Tags == StringsUpTo(TagChars, MaxTag)

ParseOk(v) == [tag |-> "Ok", val |-> v]
ParseErr(kind, e) == [tag |-> kind, err |-> e]

\* s.split('$') as the list of its items: one more than there are separators
RECURSIVE split(_)
split(s) ==
    IF \A k \in 1..Len(s) : s[k] # "$" THEN <<s>>
    ELSE LET k == CHOOSE j \in 1..Len(s) :
                      s[j] = "$" /\ \A i \in 1..(j - 1) : s[i] # "$"
         IN  <<SubSeq(s, 1, k - 1)>> \o split(SubSeq(s, k + 1, Len(s)))

\* BASE32_NOPAD.decode: none of the characters is a base32 symbol, so only the
\* empty string decodes (to the empty path)
symbol_safe_to_path(s) ==
    IF s = <<>> THEN ParseOk("") ELSE ParseErr("DecodeError", "InvalidBase32")

\* char::to_digit(radix): the value of a digit, -1 for any other character
DigitValues ==
    [c \in {"0", "1", "2", "3", "4", "5", "6", "7", "8", "9"} |->
        CASE c = "0" -> 0 [] c = "1" -> 1 [] c = "2" -> 2 [] c = "3" -> 3 [] c = "4" -> 4
          [] c = "5" -> 5 [] c = "6" -> 6 [] c = "7" -> 7 [] c = "8" -> 8 [] c = "9" -> 9]
HexLetterValues ==
    [c \in {"a", "b", "c", "d", "e", "f", "A", "B", "C", "D", "E", "F"} |->
        CASE c \in {"a", "A"} -> 10 [] c \in {"b", "B"} -> 11 [] c \in {"c", "C"} -> 12
          [] c \in {"d", "D"} -> 13 [] c \in {"e", "E"} -> 14 [] c \in {"f", "F"} -> 15]
to_digit(c, radix) ==
    IF c \in DOMAIN DigitValues THEN DigitValues[c]
    ELSE IF radix = 16 /\ c \in DOMAIN HexLetterValues THEN HexLetterValues[c]
    ELSE -1

RECURSIVE digits_value(_, _)
digits_value(s, radix) ==
    IF s = <<>> THEN 0
    ELSE radix * digits_value(SubSeq(s, 1, Len(s) - 1), radix) + to_digit(s[Len(s)], radix)

\* u32::from_str_radix: digits only, not empty (the strings of the model are
\* short enough not to overflow and carry no sign)
from_str_radix(s, radix) ==
    IF s # <<>> /\ \A k \in 1..Len(s) : to_digit(s[k], radix) >= 0
    THEN ParseOk(digits_value(s, radix))
    ELSE ParseErr("ParseIntError", s)

\* str::parse::<u32>
parse_u32(s) == from_str_radix(s, 10)

\* parse_address: hexadecimal after "0x" or "0X", decimal otherwise
parse_address(s) ==
    LET r == IF Len(s) >= 2 /\ SubSeq(s, 1, 2) \in {<<"0", "x">>, <<"0", "X">>}
             THEN from_str_radix(SubSeq(s, 3, Len(s)), 16)
             ELSE from_str_radix(s, 10)
    IN  IF r.tag = "Ok" THEN r ELSE ParseErr("ParsingError", <<"InvalidAddress", s>>)

\* ArmCondition::from_str: of the strings of the alphabet only "" is a
\* condition (AL)
ArmCondition_from_str(s) ==
    IF s = <<>> THEN ParseOk(AL) ELSE ParseErr("ParsingError", <<"InvalidCondition", s>>)

\* ArmBranch::from_str(s, from_addr_str): the condition is parsed before the
\* address
ArmBranch_from_str(s, from_addr_str) ==
    LET l == Len(s)
        branch(link, cond_str) ==
            LET condition == ArmCondition_from_str(cond_str)
                from_addr == parse_address(from_addr_str)
            IN  IF condition.tag # "Ok" THEN condition
                ELSE IF from_addr.tag # "Ok" THEN from_addr
                ELSE ParseOk([condition |-> condition.val, link |-> link,
                              from_addr |-> from_addr.val])
    IN  IF (l = 1 \/ l = 3) /\ s[1] = "b" THEN branch(FALSE, SubSeq(s, 2, l))
        ELSE IF (l = 2 \/ l = 4) /\ SubSeq(s, 1, 2) = <<"b", "l">>
             THEN branch(TRUE, SubSeq(s, 3, l))
        ELSE ParseErr("ParsingError", <<"InvalidBranch", s>>)

\* HookKind::from_str: no string of the alphabet is pre, post, replace or
\* symptr; an InvalidBranch becomes InvalidKind
HookKind_from_str(kind_str, arg_str) ==
    LET branch == ArmBranch_from_str(kind_str, arg_str) IN
    IF branch.tag = "ParsingError" /\ branch.err[1] = "InvalidBranch"
    THEN ParseErr("ParsingError", <<"InvalidKind", kind_str>>)
    ELSE IF branch.tag # "Ok" THEN branch
    ELSE ParseOk([kind |-> "Branch", branch |-> branch.val])

\* mutant of HookMeta_from_str: each field is validated as soon as it is split
\* off
HookMeta_from_str_eager(s) ==
    LET f == split(s)
        m(name) == ParseErr("MetaParsingError", <<name>>)
    IN  IF s = <<>> THEN m("MissingKind")
        ELSE IF Len(f) < 2 THEN m("MissingArgument")
        ELSE IF Len(f) < 3 THEN m("MissingFile")
        ELSE IF symbol_safe_to_path(f[3]).tag # "Ok"
             THEN ParseErr("MetaParsingError", <<"InvalidFile", symbol_safe_to_path(f[3]).err>>)
        ELSE IF Len(f) < 4 THEN m("MissingLine")
        ELSE IF parse_u32(f[4]).tag # "Ok"
             THEN ParseErr("MetaParsingError", <<"InvalidLine", f[4]>>)
        ELSE IF Len(f) < 5 THEN m("MissingCounter")
        ELSE IF parse_u32(f[5]).tag # "Ok"
             THEN ParseErr("MetaParsingError", <<"InvalidCounter", f[5]>>)
        ELSE ParseOk([kind_str |-> f[1], arg_str |-> f[2],
                      location |-> [file |-> symbol_safe_to_path(f[3]).val,
                                    line |-> parse_u32(f[4]).val],
                      counter |-> parse_u32(f[5]).val])

\* HookMeta::from_str: the five split.next(), then the three conversions
HookMeta_from_str(s) ==
    LET f == split(s)
        m(name) == ParseErr("MetaParsingError", <<name>>)
    IN  IF s = <<>> THEN m("MissingKind")
        ELSE IF Len(f) < 2 THEN m("MissingArgument")
        ELSE IF Len(f) < 3 THEN m("MissingFile")
        ELSE IF Len(f) < 4 THEN m("MissingLine")
        ELSE IF Len(f) < 5 THEN m("MissingCounter")
        ELSE IF symbol_safe_to_path(f[3]).tag # "Ok"
             THEN ParseErr("MetaParsingError", <<"InvalidFile", symbol_safe_to_path(f[3]).err>>)
        ELSE IF parse_u32(f[4]).tag # "Ok"
             THEN ParseErr("MetaParsingError", <<"InvalidLine", f[4]>>)
        ELSE IF parse_u32(f[5]).tag # "Ok"
             THEN ParseErr("MetaParsingError", <<"InvalidCounter", f[5]>>)
        ELSE ParseOk([kind_str |-> f[1], arg_str |-> f[2],
                      location |-> [file |-> symbol_safe_to_path(f[3]).val,
                                    line |-> parse_u32(f[4]).val],
                      counter |-> parse_u32(f[5]).val])

\* HookInfo::from_str
HookInfo_from_str(input) ==
    LET meta == HookMeta_from_str(input) IN
    IF meta.tag # "Ok" THEN meta
    ELSE LET kind == HookKind_from_str(meta.val.kind_str, meta.val.arg_str) IN
         IF kind.tag # "Ok"
         THEN [tag |-> "ParsingError", err |-> kind.err, location |-> meta.val.location]
         ELSE ParseOk([kind |-> kind.val, location |-> meta.val.location,
                       counter |-> meta.val.counter])

InitTag ==
    /\ writer = new(CodeBase, <<>>)
    /\ last \in [op : {"arguments"}, input : Tags, res : {None}]
    /\ written = {}
    /\ NoBuild
    /\ NoPool

\* HookInfo::from_str(input)
ParseTag ==
    /\ last.op = "arguments"
    /\ last' = [last EXCEPT !.op = "HookInfo::from_str",
                            !.res = HookInfo_from_str(last.input)]
    /\ UNCHANGED <<writer, written, buildVars, poolVars>>

NextTag == ParseTag

SpecTag == InitTag /\ [][NextTag]_vars

\* the number of '$'-separated fields of a string that is not empty
FieldCount(s) == Cardinality({k \in 1..Len(s) : s[k] = "$"}) + 1

\* the error of the first absent field
MissingField(n) ==
    <<<<"MissingArgument">>, <<"MissingFile">>, <<"MissingLine">>, <<"MissingCounter">>>>[n]

\* C30: the tag parser reports the first absent field in field order: empty
\* input gives MissingKind, 1, 2, 3 or 4 '$'-separated fields give
\* MissingArgument, MissingFile, MissingLine, MissingCounter, whatever the
\* fields that are present hold; InvalidFile, InvalidLine, InvalidCounter and
\* the kind/address parsing errors are produced only when all five fields are
\* present, and then no Missing* error is.
C30_FirstAbsentField ==
    last.op = "HookInfo::from_str" =>
        LET n == FieldCount(last.input)
            r == last.res
        IN  /\ last.input = <<>> => r = ParseErr("MetaParsingError", <<"MissingKind">>)
            /\ (last.input # <<>> /\ n <= 4) =>
                  r = ParseErr("MetaParsingError", MissingField(n))
            /\ n >= 5 =>
                  ~(r.tag = "MetaParsingError" /\ Len(r.err) = 1)
            /\ (r.tag = "ParsingError"
                  \/ (r.tag = "MetaParsingError" /\ Len(r.err) = 2)) => n >= 5

\* three fields whose file does not decode: the absent line is reported
C30_Witness ==
    /\ last.op = "HookInfo::from_str"
    /\ last.input = <<"b", "$", "1", "$", "b">>
    /\ last.res = ParseErr("MetaParsingError", <<"MissingLine">>)

(***************************************************************************)
(* The hook declaration reader (hook/hks.rs): HksReader over files of a    *)
(* few lines.  A file is the sequence of its lines, a line a sequence of   *)
(* characters.                                                             *)
(***************************************************************************)

\* the number of lines of the longest file
MaxLines == 3

\* the lines a file is made of: blank, comment-only, titles, properties
HksLines == {
    <<>>,                                  \* ""
    <<"#", "a">>,                          \* "#a"
    <<" ", "#">>,                          \* " #"
    <<"t", ":">>,                          \* "t:"
    <<"u", " ", "#", ":">>,                \* "u #:"
    <<"t", ":", ":">>,                     \* "t::"
    <<" ", "a", ":", "1">>,                \* " a:1"
    <<" ", "A", " ", ":", " ", "1", " ">>, \* " A : 1 "
    <<" ", "b", ":", "1", ":", "2">>,      \* " b:1:2"
    <<" ", "a">>,                          \* " a"
    <<" ", ":", "1">>,                     \* " :1"
    <<" ", "a", ":", " ", "#", "1">> }     \* " a: #1"

RECURSIVE FilesUpTo(_)
FilesUpTo(n) ==
    IF n = 0 THEN {<<>>}
    ELSE LET shorter == FilesUpTo(n - 1) IN
         shorter \cup {Append(f, l) : f \in {g \in shorter : Len(g) = n - 1}, l \in HksLines}

HksFiles == FilesUpTo(MaxLines)

\* char::is_whitespace
is_whitespace(c) == c = " "

\* str::find: the index of the first c, 0 when there is none
find(line, c) ==
    IF \E k \in 1..Len(line) : line[k] = c
    THEN CHOOSE k \in 1..Len(line) : line[k] = c /\ \A j \in 1..(k - 1) : line[j] # c
    ELSE 0

RECURSIVE trim_end(_)
trim_end(s) ==
    IF s # <<>> /\ is_whitespace(s[Len(s)]) THEN trim_end(SubSeq(s, 1, Len(s) - 1)) ELSE s

RECURSIVE trim_start(_)
trim_start(s) ==
    IF s # <<>> /\ is_whitespace(s[1]) THEN trim_start(Tail(s)) ELSE s

trim(s) == trim_start(trim_end(s))

to_ascii_lowercase(s) == [k \in 1..Len(s) |-> IF s[k] = "A" THEN "a" ELSE s[k]]

\* HksReader::line_strip_comment_and_truncate_end
line_strip_comment_and_truncate_end(line) ==
    LET comment_start == find(line, "#") IN
    trim_end(IF comment_start # 0 THEN SubSeq(line, 1, comment_start - 1) ELSE line)

\* if line.ends_with(':') { line.pop(); }
pop_colon(line) ==
    IF line # <<>> /\ line[Len(line)] = ":" THEN SubSeq(line, 1, Len(line) - 1) ELSE line

\* enum HksError and struct HksEntry
InvalidTitleLine(n) == [tag |-> "InvalidTitleLine", line |-> n]
InvalidKeyValueLine(n) == [tag |-> "InvalidKeyValueLine", line |-> n]
EmptyKey(n) == [tag |-> "EmptyKey", line |-> n]
EmptyValue(n) == [tag |-> "EmptyValue", line |-> n]
DuplicateKey(n, key) == [tag |-> "DuplicateKey", line |-> n, key |-> key]
HksEntry(title, line, kv) == [tag |-> "HksEntry", title |-> title, line |-> line, kv |-> kv]

\* HashMap::new() and HashMap::insert
EmptyMap == [k \in {} |-> <<>>]
kv_insert(m, key, value) == [k \in DOMAIN m \cup {key} |-> IF k = key THEN value ELSE m[k]]

\* HksReader::new(reader)
HksReader_new(file) == [reader_lines |-> file, line_i |-> 0, next_title |-> None]

\* HksReader::next_line, when there is a line: the reader after it
next_line(self) ==
    [self EXCEPT !.reader_lines = Tail(self.reader_lines), !.line_i = self.line_i + 1]

\* mutant of scan_title: the line number is taken before the line is counted
RECURSIVE scan_title_zero_based(_)
scan_title_zero_based(self) ==
    IF self.reader_lines = <<>> THEN [reader |-> self, err |-> None]
    ELSE LET r == next_line(self)
             line == line_strip_comment_and_truncate_end(Head(self.reader_lines))
         IN  IF line = <<>> THEN scan_title_zero_based(r)
             ELSE IF is_whitespace(line[1])
                  THEN [reader |-> r, err |-> Some(InvalidTitleLine(self.line_i))]
             ELSE [reader |-> [r EXCEPT !.next_title = Some(<<pop_colon(line), self.line_i>>)],
                   err |-> None]

\* the first loop of HksReader::next: up to the next title
RECURSIVE scan_title(_)
scan_title(self) ==
    IF self.reader_lines = <<>> THEN [reader |-> self, err |-> None]
    ELSE LET r == next_line(self)
             line == line_strip_comment_and_truncate_end(Head(self.reader_lines))
         IN  IF line = <<>> THEN scan_title(r)
             ELSE IF is_whitespace(line[1])
                  THEN [reader |-> r, err |-> Some(InvalidTitleLine(r.line_i))]
             ELSE [reader |-> [r EXCEPT !.next_title = Some(<<pop_colon(line), r.line_i>>)],
                   err |-> None]

\* mutant of read_properties: the title that ends the block is dropped
RECURSIVE read_properties_title_lost(_, _)
read_properties_title_lost(self, kv) ==
    IF self.reader_lines = <<>> THEN [reader |-> self, kv |-> kv, err |-> None]
    ELSE LET r == next_line(self)
             line == line_strip_comment_and_truncate_end(Head(self.reader_lines))
             split_i == find(line, ":")
             key == to_ascii_lowercase(trim(SubSeq(line, 1, split_i - 1)))
             value == trim(SubSeq(line, split_i + 1, Len(line)))
             fail(e) == [reader |-> r, kv |-> kv, err |-> Some(e)]
         IN  IF line = <<>> THEN read_properties_title_lost(r, kv)
             ELSE IF ~is_whitespace(line[1]) THEN [reader |-> r, kv |-> kv, err |-> None]
             ELSE IF split_i = 0 THEN fail(InvalidKeyValueLine(r.line_i))
             ELSE IF key = <<>> THEN fail(EmptyKey(r.line_i))
             ELSE IF value = <<>> THEN fail(EmptyValue(r.line_i))
             ELSE IF key \in DOMAIN kv THEN fail(DuplicateKey(r.line_i, key))
             ELSE read_properties_title_lost(r, kv_insert(kv, key, value))

\* the second loop of HksReader::next: the properties of the open entry
RECURSIVE read_properties(_, _)
read_properties(self, kv) ==
    IF self.reader_lines = <<>> THEN [reader |-> self, kv |-> kv, err |-> None]
    ELSE LET r == next_line(self)
             line == line_strip_comment_and_truncate_end(Head(self.reader_lines))
             split_i == find(line, ":")
             key == to_ascii_lowercase(trim(SubSeq(line, 1, split_i - 1)))
             value == trim(SubSeq(line, split_i + 1, Len(line)))
             fail(e) == [reader |-> r, kv |-> kv, err |-> Some(e)]
         IN  IF line = <<>> THEN read_properties(r, kv)
             ELSE IF ~is_whitespace(line[1])
                  THEN [reader |-> [r EXCEPT !.next_title = Some(<<pop_colon(line), r.line_i>>)],
                        kv |-> kv, err |-> None]
             ELSE IF split_i = 0 THEN fail(InvalidKeyValueLine(r.line_i))
             ELSE IF key = <<>> THEN fail(EmptyKey(r.line_i))
             ELSE IF value = <<>> THEN fail(EmptyValue(r.line_i))
             ELSE IF key \in DOMAIN kv THEN fail(DuplicateKey(r.line_i, key))
             ELSE read_properties(r, kv_insert(kv, key, value))

\* HksReader::next: the reader afterwards and the item returned (None, an
\* entry or an error)
HksReader_next(self) ==
    LET s == IF self.next_title = None THEN scan_title(self)
             ELSE [reader |-> self, err |-> None]
    IN  IF s.err # None THEN [reader |-> s.reader, item |-> s.err]
        ELSE IF s.reader.next_title = None THEN [reader |-> s.reader, item |-> None]
        ELSE LET title == s.reader.next_title[1]
                 p == read_properties([s.reader EXCEPT !.next_title = None], EmptyMap)
             IN  IF p.err # None THEN [reader |-> p.reader, item |-> p.err]
                 ELSE [reader |-> p.reader,
                       item |-> Some(HksEntry(title[1], title[2], p.kv))]

\* hook::hks::open_file: a reader on a file; nothing is read yet
InitReader ==
    /\ writer = new(CodeBase, <<>>)
    /\ \E file \in HksFiles :
          last = [op |-> "HksReader::new", file |-> file, reader |-> HksReader_new(file),
                  res |-> None, entries |-> <<>>]
    /\ written = {}
    /\ NoBuild
    /\ NoPool

\* one turn of for h in reader: the loop of run() goes on after an entry and
\* ends at None or at the first error
ReaderNext ==
    /\ \/ last.op = "HksReader::new"
       \/ last.op = "HksReader::next" /\ last.res # None /\ last.res[1].tag = "HksEntry"
    /\ LET n == HksReader_next(last.reader) IN
       last' = [last EXCEPT
                  !.op = "HksReader::next",
                  !.reader = n.reader,
                  !.res = n.item,
                  !.entries = IF n.item # None /\ n.item[1].tag = "HksEntry"
                              THEN Append(@, n.item[1]) ELSE @]
    /\ UNCHANGED <<writer, written, buildVars, poolVars>>

NextReader == ReaderNext

SpecReader == InitReader /\ [][NextReader]_vars

\* The file read line by line, without the reader: line k after comment
\* stripping and right-trimming, what kind of line it is, and the block a
\* property line belongs to.
Clean(k) == line_strip_comment_and_truncate_end(last.file[k])
IsTitle(k) == Clean(k) # <<>> /\ ~is_whitespace(Clean(k)[1])
IsIndented(k) == Clean(k) # <<>> /\ is_whitespace(Clean(k)[1])
TitleLines == {k \in 1..Len(last.file) : IsTitle(k)}
TitleAt(i) == CHOOSE k \in TitleLines : Cardinality({j \in TitleLines : j < k}) = i - 1
BlockOf(t) ==
    {k \in (t + 1)..Len(last.file) :
        IsIndented(k) /\ \A j \in (t + 1)..k : ~IsTitle(j)}
KeyText(k) == trim(SubSeq(Clean(k), 1, find(Clean(k), ":") - 1))
KeyOf(k) == to_ascii_lowercase(KeyText(k))
ValueOf(k) == trim(SubSeq(Clean(k), find(Clean(k), ":") + 1, Len(Clean(k))))
PropertiesOf(t) ==
    [key \in {KeyOf(k) : k \in BlockOf(t)} |->
        ValueOf(CHOOSE k \in BlockOf(t) : KeyOf(k) = key)]

\* line k is one the reader cannot accept: indented with no title before it,
\* or a property without ':', without key, without value, or with a key an
\* earlier property of its block has
TitleBefore(k) == \E t \in TitleLines : t < k
Repeats(k) ==
    \E t \in TitleLines : k \in BlockOf(t) /\ \E j \in BlockOf(t) : j < k /\ KeyOf(j) = KeyOf(k)
Offending(k) ==
    /\ IsIndented(k)
    /\ \/ ~TitleBefore(k)
       \/ find(Clean(k), ":") = 0
       \/ KeyText(k) = <<>>
       \/ ValueOf(k) = <<>>
       \/ Repeats(k)

\* C23: the reader yields, in file order, one entry for every non-empty
\* non-indented line: title = the line without one trailing ':', line = its
\* number, properties = the pairs of the indented lines up to the next title
\* or EOF (key trimmed and lowercased, value trimmed, split at the first ':');
\* no title is lost when it ends a block, blank and comment-only lines only
\* count as lines, and a title without properties yields an entry without
\* keys.  A file with a line the reader cannot accept yields the entries
\* before that line's block and then the error.
C23_OneEntryPerTitle ==
    last.op = "HksReader::next" =>
        /\ Len(last.entries) <= Cardinality(TitleLines)
        /\ \A i \in 1..Len(last.entries) :
              last.entries[i] =
                  HksEntry(pop_colon(Clean(TitleAt(i))), TitleAt(i), PropertiesOf(TitleAt(i)))
        /\ last.res = None => Len(last.entries) = Cardinality(TitleLines)
        /\ (\A k \in 1..Len(last.file) : ~Offending(k)) =>
              (last.res = None \/ last.res[1].tag = "HksEntry")

\* "t:", " a:1", "u #:" has been read to the end: two entries, the second
\* one without keys
C23_Witness ==
    /\ last.op = "HksReader::next" /\ last.res = None
    /\ last.file = << <<"t", ":">>, <<" ", "a", ":", "1">>, <<"u", " ", "#", ":">> >>
    /\ Len(last.entries) = 2
    /\ last.entries[1].kv = [k \in {<<"a">>} |-> <<"1">>]
    /\ last.entries[2] = HksEntry(<<"u">>, 3, EmptyMap)

HksKeys == {<<"a">>, <<"b">>}

\* "true", "false", "1" (an address) and "b" (neither)
HksValues == {<<"t", "r", "u", "e">>, <<"f", "a", "l", "s", "e">>, <<"1">>, <<"b">>}

\* the property maps of parsed entries
HksMaps == UNION {[keys -> HksValues] : keys \in SUBSET HksKeys}

\* HashMap::remove
kv_remove(m, key) == [k \in DOMAIN m \ {key} |-> m[k]]

MissingKey(key) == ParseErr("HksParseError", <<"MissingKey", key>>)
InvalidTypeValue(type, value) == ParseErr("HksParseError", <<"InvalidTypeValue", type, value>>)

\* HksEntry::is_done
HksEntry_is_done(self) == self.kv = EmptyMap

\* HksEntry::has
HksEntry_has(self, key) == key \in DOMAIN self.kv

\* mutant of HksEntry_get: the key stays in the entry
HksEntry_get_peek(self, key) ==
    IF key \in DOMAIN self.kv
    THEN [entry |-> self, res |-> ParseOk(self.kv[key])]
    ELSE [entry |-> self, res |-> MissingKey(key)]

\* HksEntry::get: the entry afterwards and the result
HksEntry_get(self, key) ==
    IF key \in DOMAIN self.kv
    THEN [entry |-> [self EXCEPT !.kv = kv_remove(self.kv, key)], res |-> ParseOk(self.kv[key])]
    ELSE [entry |-> self, res |-> MissingKey(key)]

\* HksEntry::get_bool
HksEntry_get_bool(self, key) ==
    LET g == HksEntry_get(self, key) IN
    IF g.res.tag # "Ok" THEN g
    ELSE IF g.res.val = <<"t", "r", "u", "e">> THEN [g EXCEPT !.res = ParseOk(TRUE)]
    ELSE IF g.res.val = <<"f", "a", "l", "s", "e">> THEN [g EXCEPT !.res = ParseOk(FALSE)]
    ELSE [g EXCEPT !.res = InvalidTypeValue("bool", g.res.val)]

\* HksEntry::get_address
HksEntry_get_address(self, key) ==
    LET g == HksEntry_get(self, key) IN
    IF g.res.tag # "Ok" THEN g
    ELSE IF parse_address(g.res.val).tag = "Ok" THEN [g EXCEPT !.res = parse_address(g.res.val)]
    ELSE [g EXCEPT !.res = InvalidTypeValue("address", g.res.val)]

\* an entry as the reader yields it; nothing has been called yet
InitEntry ==
    /\ writer = new(CodeBase, <<>>)
    /\ \E kv \in HksMaps :
          last = [op |-> "HksEntry", key |-> <<>>, res |-> None,
                  parsed |-> HksEntry(<<"t">>, 1, kv), before |-> HksEntry(<<"t">>, 1, kv),
                  entry |-> HksEntry(<<"t">>, 1, kv), called |-> {}]
    /\ written = {}
    /\ NoBuild
    /\ NoPool

\* the call made and its outcome; called: the keys get, get_bool or
\* get_address have been called with
EntryCall(op, key, outcome) ==
    /\ last' = [last EXCEPT !.op = op, !.key = key, !.res = outcome.res,
                            !.before = last.entry, !.entry = outcome.entry,
                            !.called = IF op = "has" THEN @ ELSE @ \cup {key}]
    /\ UNCHANGED <<writer, written, buildVars, poolVars>>

Get(key) == EntryCall("get", key, HksEntry_get(last.entry, key))
GetBool(key) == EntryCall("get_bool", key, HksEntry_get_bool(last.entry, key))
GetAddress(key) == EntryCall("get_address", key, HksEntry_get_address(last.entry, key))
Has(key) ==
    EntryCall("has", key, [entry |-> last.entry, res |-> HksEntry_has(last.entry, key)])

NextEntry ==
    \/ \E key \in HksKeys : Get(key)
    \/ \E key \in HksKeys : GetBool(key)
    \/ \E key \in HksKeys : GetAddress(key)
    \/ \E key \in HksKeys : Has(key)

SpecEntry == InitEntry /\ [][NextEntry]_vars

\* the last call was get, get_bool or get_address
LastGet == last.op \in {"get", "get_bool", "get_address"}

\* C25: get(key) on a present key returns its value and removes exactly that
\* key, so that a second get(key) returns MissingKey(key); on an absent key
\* it returns MissingKey(key) and leaves the entry as it is; get_bool and
\* get_address remove the key also when the value is no bool / address
\* (InvalidTypeValue); has(key) tells whether the key is present and changes
\* nothing; and is_done() holds iff every key the entry was parsed with has
\* been passed to one of the get calls.
C25_EntryConsumption ==
    /\ (LastGet /\ last.key \in DOMAIN last.before.kv) =>
          /\ last.entry = [last.before EXCEPT !.kv = kv_remove(last.before.kv, last.key)]
          /\ last.op = "get" => last.res = ParseOk(last.before.kv[last.key])
          /\ last.op # "get" =>
                \/ last.res.tag = "Ok"
                \/ last.res = InvalidTypeValue(IF last.op = "get_bool" THEN "bool" ELSE "address",
                                               last.before.kv[last.key])
          /\ HksEntry_get(last.entry, last.key).res = MissingKey(last.key)
    /\ (LastGet /\ last.key \notin DOMAIN last.before.kv) =>
          /\ last.res = MissingKey(last.key)
          /\ last.entry = last.before
    /\ last.op = "has" =>
          /\ last.entry = last.before
          /\ last.res = (last.key \in DOMAIN last.before.kv)
    /\ last.op \in {"HksEntry", "get", "get_bool", "get_address", "has"} =>
          (HksEntry_is_done(last.entry) <=> DOMAIN last.parsed.kv \subseteq last.called)

\* get_address has removed the last key of an entry although its value is no
\* address: the entry is done
C25_Witness ==
    /\ last.op = "get_address"
    /\ last.res = InvalidTypeValue("address", <<"b">>)
    /\ DOMAIN last.parsed.kv = HksKeys
    /\ HksEntry_is_done(last.entry)

(***************************************************************************)
(* The handling of one .hks entry by run() (main.rs:495-647), on the       *)
(* writer and the pre/post table as they are when the .hks files are read. *)
(* Keys and values are character strings, as the reader yields them.       *)
(***************************************************************************)

\* the keys and the values run() compares with
s_addr == <<"a", "d", "d", "r">>
s_type == <<"t", "y", "p", "e">>
s_link == <<"l", "i", "n", "k">>
s_func == <<"f", "u", "n", "c">>
s_dest == <<"d", "e", "s", "t">>
s_opcode == <<"o", "p", "c", "o", "d", "e">>
s_data == <<"d", "a", "t", "a">>
s_sym == <<"s", "y", "m">>
s_branch == <<"b", "r", "a", "n", "c", "h">>
s_softbranch == <<"s", "o", "f", "t", "b", "r", "a", "n", "c", "h">>
s_soft_branch == <<"s", "o", "f", "t", "_", "b", "r", "a", "n", "c", "h">>
s_patch == <<"p", "a", "t", "c", "h">>
s_symbol == <<"s", "y", "m", "b", "o", "l">>
s_symptr == <<"s", "y", "m", "p", "t", "r">>
s_sym_ptr == <<"s", "y", "m", "_", "p", "t", "r">>
s_true == <<"t", "r", "u", "e">>
s_false == <<"f", "a", "l", "s", "e">>
s_pre == <<"p", "r", "e">>
s_post == <<"p", "o", "s", "t">>

\* a key no type reads, a type that is none, a callback symbol that exists and
\* one that does not, and the addresses 0x100000 and 0x100004
s_note == <<"n", "o", "t", "e">>
s_jump == <<"j", "u", "m", "p">>
s_f == <<"f">>
s_g == <<"g">>
s_0x100000 == <<"0", "x", "1", "0", "0", "0", "0", "0">>
s_0x100004 == <<"0", "x", "1", "0", "0", "0", "0", "4">>
s_ff_01 == <<"f", "f", " ", "0", "1">>

\* symtab_index: the symbols of the linked ELF
symtab_index == [name \in {s_f} |-> custom_text_address]

\* the values a key of an input entry may have
HookKeys == {s_addr, s_type, s_link, s_func, s_dest, s_opcode, s_data, s_sym, s_note}
HookValues ==
    [key \in HookKeys |->
        CASE key = s_addr -> {s_0x100000, s_g}
          [] key = s_type -> {s_branch, s_softbranch, s_patch, s_symbol, s_jump}
          [] key = s_link -> {s_true}
          [] key = s_func -> {s_f, s_g}
          [] key = s_dest -> {s_0x100004}
          [] key = s_opcode -> {s_pre}
          [] key = s_data -> {s_ff_01}
          [] key = s_sym -> {s_f}
          [] key = s_note -> {s_f}]

\* every property map over a set of keys
RECURSIVE MapsOver(_)
MapsOver(keys) ==
    IF keys = {} THEN {EmptyMap}
    ELSE LET key == CHOOSE k \in keys : TRUE
             rest == MapsOver(keys \ {key})
         IN  rest \cup {kv_insert(m, key, v) : m \in rest, v \in HookValues[key]}

HookEntries == {HksEntry(<<"t">>, 1, kv) : kv \in MapsOver(HookKeys)}

\* the address as the word to_le_bytes takes
u32_of(a) == U32(a \div 16777216, a % 16777216)

\* the opcode of a softbranch as hks_softbranch matches it
opcode_pos_of(value) ==
    IF value = s_pre THEN "pre" ELSE IF value = s_post THEN "post" ELSE "other"

\* if h.has("func") { symtab_index.get(h.get("func")) } else
\* { h.get_address("dest") }: the entry afterwards and the target or the error
to_address_of(h) ==
    IF HksEntry_has(h, s_func)
    THEN LET g == HksEntry_get(h, s_func) IN
         IF g.res.tag # "Ok" THEN [h |-> g.entry, res |-> Fatal("Failed to get func for hook")]
         ELSE IF g.res.val \notin DOMAIN symtab_index
         THEN [h |-> g.entry, res |-> Hook("Symbol not found")]
         ELSE [h |-> g.entry, res |-> Ok, to_address |-> symtab_index[g.res.val]]
    ELSE LET g == HksEntry_get_address(h, s_dest) IN
         IF g.res.tag # "Ok" THEN [h |-> g.entry, res |-> Fatal("Failed to get dest for hook")]
         ELSE [h |-> g.entry, res |-> Ok, to_address |-> g.res.val]

\* the bytes of a patch: data.replace(" ", ""), an even number of hex digits
patch_data(value) ==
    LET data_chars == SelectSeq(value, LAMBDA c : c # " ") IN
    IF Len(data_chars) % 2 # 0 THEN [res |-> Hook("Invalid patch data")]
    ELSE IF \E k \in 1..Len(data_chars) : to_digit(data_chars[k], 16) < 0
    THEN [res |-> Hook("Invalid patch data")]
    ELSE [res |-> Ok,
          data |-> [k \in 1..(Len(data_chars) \div 2) |->
                       16 * to_digit(data_chars[2 * k - 1], 16)
                           + to_digit(data_chars[2 * k], 16)]]

\* the match on the type of an entry whose addr and type have been read: the
\* result, and the writer, the table and the entry afterwards
hook_type(w, entries, h, address, type) ==
    LET out(res, w1, e1, h1) == [res |-> res, w |-> w1, entries |-> e1, h |-> h1] IN
    IF type = s_branch
    THEN LET link == HksEntry_get_bool(h, s_link) IN
         IF link.res.tag # "Ok"
         THEN out(Fatal("Failed to get link for hook"), w, entries, link.entry)
         ELSE LET t == to_address_of(link.entry) IN
              IF t.res # Ok THEN out(t.res, w, entries, t.h)
              ELSE LET b == make_branch_u32(link.res.val, address, t.to_address, AL) IN
                   IF b = None THEN out(Fatal("Failed to make branch hook"), w, entries, t.h)
                   ELSE LET wr == write(w, address, to_le_bytes(b[1])) IN
                        IF wr.res # Ok
                        THEN out(Fatal("Failed to write branch hook"), wr.w, entries, t.h)
                        ELSE out(Ok, wr.w, entries, t.h)
    ELSE IF type \in {s_softbranch, s_soft_branch}
    THEN LET opcode == HksEntry_get(h, s_opcode) IN
         IF opcode.res.tag # "Ok"
         THEN out(Fatal("Failed to get opcode for hook"), w, entries, opcode.entry)
         ELSE LET t == to_address_of(opcode.entry) IN
              IF t.res # Ok THEN out(t.res, w, entries, t.h)
              ELSE LET r == hks_softbranch(entries, opcode_pos_of(opcode.res.val),
                                           address, t.to_address)
                   IN  out(r.res, w, r.entries, t.h)
    ELSE IF type = s_patch
    THEN LET data == HksEntry_get(h, s_data) IN
         IF data.res.tag # "Ok"
         THEN out(Fatal("Failed to get data for patch hook"), w, entries, data.entry)
         ELSE LET d == patch_data(data.res.val) IN
              IF d.res # Ok THEN out(d.res, w, entries, data.entry)
              ELSE LET wr == write(w, address, d.data) IN
                   IF wr.res # Ok
                   THEN out(Fatal("Failed to write patch data"), wr.w, entries, data.entry)
                   ELSE out(Ok, wr.w, entries, data.entry)
    ELSE IF type \in {s_symbol, s_symptr, s_sym_ptr}
    THEN LET sym == HksEntry_get(h, s_sym) IN
         IF sym.res.tag # "Ok"
         THEN out(Fatal("Failed to get sym for hook"), w, entries, sym.entry)
         ELSE IF sym.res.val \notin DOMAIN symtab_index
         THEN out(Hook("Symbol not found"), w, entries, sym.entry)
         ELSE LET wr == write(w, address, to_le_bytes(u32_of(symtab_index[sym.res.val]))) IN
              IF wr.res # Ok
              THEN out(Fatal("Failed to write symbol hook"), wr.w, entries, sym.entry)
              ELSE out(Ok, wr.w, entries, sym.entry)
    ELSE out(Hook("Invalid hook type"), w, entries, h)

\* mutant of hks_entry: the entry is not asked whether it is done
hks_entry_unchecked(w, entries, h) ==
    LET address == HksEntry_get_address(h, s_addr) IN
    IF address.res.tag # "Ok"
    THEN [res |-> Fatal("Failed to get address for hook"), w |-> w, entries |-> entries,
          h |-> address.entry]
    ELSE LET type == HksEntry_get(address.entry, s_type) IN
         IF type.res.tag # "Ok"
         THEN [res |-> Fatal("Failed to get type for hook"), w |-> w, entries |-> entries,
               h |-> type.entry]
         ELSE hook_type(w, entries, type.entry, address.res.val, type.res.val)

\* main.rs:640-646: an entry that was processed and still has keys is an error
check_done(r) ==
    IF r.res # Ok THEN r
    ELSE IF ~HksEntry_is_done(r.h) THEN [r EXCEPT !.res = Hook("Unused keys")]
    ELSE r

\* the body of for h in reader: addr, type, the match on the type, is_done
hks_entry(w, entries, h) ==
    LET address == HksEntry_get_address(h, s_addr) IN
    IF address.res.tag # "Ok"
    THEN [res |-> Fatal("Failed to get address for hook"), w |-> w, entries |-> entries,
          h |-> address.entry]
    ELSE LET type == HksEntry_get(address.entry, s_type) IN
         IF type.res.tag # "Ok"
         THEN [res |-> Fatal("Failed to get type for hook"), w |-> w, entries |-> entries,
               h |-> type.entry]
         ELSE check_done(hook_type(w, entries, type.entry, address.res.val, type.res.val))

\* run() at the first entry of a .hks file: the writer holds the original
\* code, the table is empty
InitHook ==
    /\ writer = new(CodeBase, OriginalCode)
    /\ \E h \in HookEntries : last = [op |-> "HksEntry", entry |-> h, res |-> None, rest |-> h]
    /\ written = {}
    /\ elf = <<>>
    /\ pre_post_entries = <<>>
    /\ phase = "hks"
    /\ error = None
    /\ todo = {}
    /\ placed = <<>>
    /\ code_bin = None
    /\ exheader_bin = None
    /\ NoPool

\* the state after an entry whose processing gave r
Processed(r) ==
    /\ writer' = r.w
    /\ pre_post_entries' = r.entries
    /\ error' = IF r.res = Ok THEN None ELSE r.res
    /\ last' = [last EXCEPT !.op = "hks_entry", !.res = r.res, !.rest = r.h]

\* the entry is processed; an error ends run()
ProcessEntry ==
    /\ last.op = "HksEntry"
    /\ Processed(hks_entry(writer, pre_post_entries, last.entry))
    /\ UNCHANGED <<written, elf, phase, todo, placed, code_bin, exheader_bin, poolVars>>

NextHook == ProcessEntry

SpecHook == InitHook /\ [][NextHook]_vars

\* the keys the type of the entry reads, among the keys it has: addr, type,
\* the keys of the type, and func when it is given, dest otherwise
KeysRead(kv) ==
    LET target == IF s_func \in DOMAIN kv THEN {s_func} ELSE {s_dest} IN
    {s_addr, s_type} \cup
        (IF kv[s_type] = s_branch THEN {s_link} \cup target
         ELSE IF kv[s_type] \in {s_softbranch, s_soft_branch} THEN {s_opcode} \cup target
         ELSE IF kv[s_type] = s_patch THEN {s_data}
         ELSE IF kv[s_type] \in {s_symbol, s_symptr, s_sym_ptr} THEN {s_sym}
         ELSE {})

\* an entry whose type is known, that has the keys its type reads, and whose
\* address and symbol are good
WellFormedEntry(kv) ==
    /\ {s_addr, s_type} \subseteq DOMAIN kv
    /\ kv[s_type] \in {s_branch, s_softbranch, s_soft_branch, s_patch, s_symbol, s_symptr,
                       s_sym_ptr}
    /\ KeysRead(kv) \subseteq DOMAIN kv
    /\ kv[s_addr] = s_0x100000
    /\ s_func \in DOMAIN kv => kv[s_func] = s_f

\* C26: the processing of an entry succeeds only if its keys are exactly the
\* keys its type reads; an entry that is otherwise good but has a further key,
\* such as a branch or softbranch with both func and dest, ends the build with
\* the hook error 'Unused keys'; an entry without addr or without type ends
\* the build as well.
C26_UnusedKeysAbort ==
    last.op = "hks_entry" =>
        LET kv == last.entry.kv IN
        /\ last.res = Ok =>
              /\ {s_addr, s_type} \subseteq DOMAIN kv
              /\ DOMAIN kv = KeysRead(kv)
              /\ error = None
        /\ last.res # Ok => error = last.res
        /\ (s_addr \notin DOMAIN kv \/ s_type \notin DOMAIN kv) => last.res.tag = "Fatal"
        /\ (WellFormedEntry(kv) /\ DOMAIN kv # KeysRead(kv)) => last.res = Hook("Unused keys")
        /\ (WellFormedEntry(kv) /\ DOMAIN kv = KeysRead(kv)) => last.res = Ok

\* a branch that gives link, func and dest: the branch is written and the
\* build ends with 'Unused keys', dest being left over
C26_Witness ==
    /\ last.op = "hks_entry"
    /\ DOMAIN last.entry.kv = {s_addr, s_type, s_link, s_func, s_dest}
    /\ last.entry.kv[s_type] = s_branch
    /\ last.entry.kv[s_func] = s_f
    /\ DOMAIN last.rest.kv = {s_dest}
    /\ error = Hook("Unused keys")
    /\ writer.buffer # OriginalCode

(***************************************************************************)
(* make_branch and the reach of the offset field (SpecArm).                *)
(***************************************************************************)

\* C39: whenever make_branch(link, from, to, cond) returns a word for
\* 4-aligned from and to, the word executed at from branches to to:
\* from + 8 + 4 * signext24(word & 0xFFFFFF) = to; and every target the
\* signed 24-bit offset field cannot reach is rejected with none.
C39_BranchReachesTarget ==
    (/\ last.op = "make_branch_u32"
     /\ last.from_addr % 4 = 0
     /\ last.to_addr % 4 = 0) =>
        LET off == (last.to_addr \div 4) - (last.from_addr \div 4) - 2 IN
        /\ last.res # None => BranchTarget(last.res[1], last.from_addr) = last.to_addr
        /\ off \notin Signed24 => last.res = None

(***************************************************************************)
(* The line numbers test_read_errors expects of the reader (SpecReader).   *)
(***************************************************************************)

\* C40: the line number an error of the reader carries is the zero-based
\* index of the offending line: an indented property line on the first line
\* gives InvalidTitleLine(0), and an invalid property on the second line,
\* after a title, gives InvalidKeyValueLine(1), EmptyKey(1) or EmptyValue(1).
C40_ZeroBasedLineNumbers ==
    (last.op = "HksReader::next" /\ last.res # None /\ last.res[1].tag # "HksEntry") =>
        LET e == last.res[1] IN
        /\ e.line + 1 \in 1..Len(last.file)
        /\ Offending(e.line + 1)
        /\ \A j \in 1..e.line : ~Offending(j)
        /\ IsIndented(1) => e = InvalidTitleLine(0)
        /\ (Len(last.file) >= 2 /\ IsTitle(1) /\ Offending(2)) =>
              e \in {InvalidKeyValueLine(1), EmptyKey(1), EmptyValue(1)}

(***************************************************************************)
(* submit_task against workers that have left their loop (SpecPool).       *)
(***************************************************************************)

\* C38: submit_task never fails, whatever the interleaving with the workers:
\* a task submitted after a task has returned Terminate, even when every
\* worker has left its loop, is accepted (and not run), the main thread goes
\* on, and wait() reports the failure as Terminate (runs in which the main
\* thread does not call terminate() itself).
C38_SubmitNeverFails ==
    /\ ~main.terminate_called => main.pc # "panicked"
    /\ (/\ main.pc = "returned"
        /\ \E t \in DOMAIN tasks : tasks[t].result = Terminate /\ tasks[t].runs # <<>>)
          => main.result = Some(Terminate)

(***************************************************************************)
(* The build decision (jobs.rs): Job::update_build_reason applied to one   *)
(* job on a small file system.  A path and a line of the dependency file   *)
(* are sequences of characters; a file is missing or has an mtime.         *)
(* std::fs::Metadata::modified is taken to succeed on a file that exists.  *)
(***************************************************************************)

\* the latest mtime, and the number of lines of the longest dependency file
MaxTime == 2
MaxDepLines == 2

\* enum BuildReason
Forced == "Forced"
ObjMissing == "ObjMissing"
SrcMissing == "SrcMissing"
SrcNewer == "SrcNewer"
DependencyNewer == "DependencyNewer"
DependencyMissing == "DependencyMissing"
NoDependencyFile == "NoDependencyFile"

\* std::fs::metadata(path) is Err
Missing == 0

\* src_path, obj_path and two headers
p_src == <<"s">>
p_obj == <<"o">>
JobPaths == {p_src, p_obj, <<"h">>, <<"g">>}

\* the file systems: every path is missing or has an mtime
FileSystems == [JobPaths -> {Missing} \cup (1..MaxTime)]

\* the lines of a dependency file
DepLines == {
    <<>>,                                       \* ""
    <<"o", ":", " ", "s", " ", "h", " ", "\\">>,  \* "o: s h \"
    <<" ", "g">>,                               \* " g"
    <<"h", "\t", "g", " ">>,                    \* "h<TAB>g "
    <<"g", ":">>,                               \* "g:"
    <<" ", "\\", " ", " ", "h">> }              \* " \  h"

RECURSIVE DepFilesUpTo(_)
DepFilesUpTo(n) ==
    IF n = 0 THEN {<<>>}
    ELSE LET shorter == DepFilesUpTo(n - 1) IN
         shorter \cup {Append(f, l) : f \in {g \in shorter : Len(g) = n - 1}, l \in DepLines}

\* the dependency file: not there, there but not readable as a string, or
\* its lines
DepFiles ==
    {[state |-> "missing"], [state |-> "unreadable"]}
        \cup {[state |-> "file", lines |-> f] : f \in DepFilesUpTo(MaxDepLines)}

\* char::is_ascii_whitespace
is_ascii_whitespace(c) == c \in {" ", "\t", "\n", "\r"}

\* str::split_ascii_whitespace: the maximal runs of characters that are not
\* whitespace, in order
RECURSIVE split_ascii_whitespace(_)
split_ascii_whitespace(s) ==
    IF s = <<>> THEN <<>>
    ELSE IF is_ascii_whitespace(Head(s)) THEN split_ascii_whitespace(Tail(s))
    ELSE LET stops == {k \in 1..Len(s) : is_ascii_whitespace(s[k])}
             end == IF stops = {} THEN Len(s) + 1 ELSE CHOOSE k \in stops : \A j \in stops : k <= j
         IN  <<SubSeq(s, 1, end - 1)>> \o split_ascii_whitespace(SubSeq(s, end, Len(s)))

\* str::ends_with(":")
ends_with_colon(part) == part # <<>> /\ part[Len(part)] = ":"

\* std::fs::metadata(part) and modified(): Missing, or the mtime
metadata(fs, path) == IF path \in DOMAIN fs THEN fs[path] ELSE Missing

\* the inner for loop of dep_requires_rebuild over the parts of one line, and
\* the outer one over the lines: the first part that is missing or newer
\* than the object ends both
RECURSIVE dep_parts(_, _, _)
dep_parts(fs, obj_time, parts) ==
    IF parts = <<>> THEN None
    ELSE LET part == trim(Head(parts)) IN
         IF part = <<"\\">> \/ ends_with_colon(part)
         THEN dep_parts(fs, obj_time, Tail(parts))
         ELSE IF metadata(fs, part) = Missing THEN Some(DependencyMissing)
         ELSE IF metadata(fs, part) > obj_time THEN Some(DependencyNewer)
         ELSE dep_parts(fs, obj_time, Tail(parts))

RECURSIVE dep_lines(_, _, _)
dep_lines(fs, obj_time, lines) ==
    IF lines = <<>> THEN None
    ELSE LET r == dep_parts(fs, obj_time, split_ascii_whitespace(trim(Head(lines)))) IN
         IF r # None THEN r ELSE dep_lines(fs, obj_time, Tail(lines))

\* mutant of dep_requires_rebuild: only the first line of the file is looked at
dep_requires_rebuild_first_line(fs, obj_time, dep) ==
    IF dep.state # "file" THEN Some(NoDependencyFile)
    ELSE IF dep.lines = <<>> THEN None
    ELSE dep_lines(fs, obj_time, <<Head(dep.lines)>>)

\* dep_requires_rebuild(obj_time, dep_path)
dep_requires_rebuild(fs, obj_time, dep) ==
    IF dep.state = "missing" THEN Some(NoDependencyFile)
    ELSE IF dep.state = "unreadable" THEN Some(NoDependencyFile)
    ELSE dep_lines(fs, obj_time, dep.lines)

\* Job::calc_build_reason
calc_build_reason(fs, dep) ==
    IF metadata(fs, p_src) = Missing THEN Some(SrcMissing)
    ELSE IF metadata(fs, p_obj) = Missing THEN Some(ObjMissing)
    ELSE IF metadata(fs, p_src) > metadata(fs, p_obj) THEN Some(SrcNewer)
    ELSE dep_requires_rebuild(fs, metadata(fs, p_obj), dep)

\* Job::build_required
build_required(build_reason) == build_reason # None

\* find_jobs has found the job: its reason is Forced
InitJob ==
    /\ writer = new(CodeBase, <<>>)
    /\ \E fs \in FileSystems, dep \in DepFiles :
          last = [op |-> "find_jobs", fs |-> fs, dep |-> dep,
                  build_reason |-> Some(Forced), todo |-> FALSE]
    /\ written = {}
    /\ NoBuild
    /\ NoPool

\* run(): job.update_build_reason(), and the filter that makes todo_jobs
UpdateBuildReason ==
    /\ last.op = "find_jobs"
    /\ LET r == calc_build_reason(last.fs, last.dep) IN
       last' = [last EXCEPT !.op = "update_build_reason", !.build_reason = r,
                            !.todo = build_required(r)]
    /\ UNCHANGED <<writer, written, buildVars, poolVars>>

NextJob == UpdateBuildReason

SpecJob == InitJob /\ [][NextJob]_vars

\* The dependency file read without the loops: the tokens of line l as the
\* spans of non-whitespace characters, the positions (line, first character)
\* of the path tokens, and the first of these whose file is missing or newer
\* than the object.
TokenStarts(line) ==
    {i \in 1..Len(line) :
        /\ ~is_ascii_whitespace(line[i])
        /\ (i = 1 \/ is_ascii_whitespace(line[i - 1]))}
TokenAt(line, i) ==
    LET ends == {j \in i..Len(line) :
                    /\ \A k \in i..j : ~is_ascii_whitespace(line[k])
                    /\ (j = Len(line) \/ is_ascii_whitespace(line[j + 1]))}
    IN  SubSeq(line, i, CHOOSE j \in ends : TRUE)
PathTokens ==
    {pos \in UNION {{<<l, i>> : i \in TokenStarts(last.dep.lines[l])} :
                        l \in 1..Len(last.dep.lines)} :
        LET t == TokenAt(last.dep.lines[pos[1]], pos[2]) IN
        t # <<"\\">> /\ t[Len(t)] # ":"}
PathOf(pos) == TokenAt(last.dep.lines[pos[1]], pos[2])
Before(p, q) == p[1] < q[1] \/ (p[1] = q[1] /\ p[2] < q[2])
Stale(pos) ==
    \/ last.fs[PathOf(pos)] = Missing
    \/ last.fs[PathOf(pos)] > last.fs[p_obj]

\* C33: the build_reason of a job is none iff its source and object exist,
\* the source is not newer than the object, the dependency file exists and
\* is readable and every path token in it ('\' and tokens ending in ':'
\* excluded) exists and is not newer than the object; otherwise it is the
\* first that applies of SrcMissing, ObjMissing, SrcNewer, NoDependencyFile
\* and then, for the path tokens in file order, DependencyMissing or
\* DependencyNewer.  The job is built iff its reason is set.
C33_BuildReason ==
    last.op = "update_build_reason" =>
        LET fs == last.fs
            expected ==
                IF fs[p_src] = Missing THEN Some(SrcMissing)
                ELSE IF fs[p_obj] = Missing THEN Some(ObjMissing)
                ELSE IF fs[p_src] > fs[p_obj] THEN Some(SrcNewer)
                ELSE IF last.dep.state # "file" THEN Some(NoDependencyFile)
                ELSE IF \A pos \in PathTokens : ~Stale(pos) THEN None
                ELSE LET first == CHOOSE pos \in PathTokens :
                                     /\ Stale(pos)
                                     /\ \A q \in PathTokens : Stale(q) => ~Before(q, pos)
                     IN  IF fs[PathOf(first)] = Missing THEN Some(DependencyMissing)
                         ELSE Some(DependencyNewer)
        IN  /\ last.build_reason = expected
            /\ last.build_reason # Some(Forced)
            /\ last.todo <=> last.build_reason # None

\* "o: s h \" and " g" with g newer than the object: the continuation line
\* decides
C33_Witness ==
    /\ last.op = "update_build_reason"
    /\ last.dep.state = "file"
    /\ last.dep.lines = << <<"o", ":", " ", "s", " ", "h", " ", "\\">>, <<" ", "g">> >>
    /\ last.fs[<<"g">>] > last.fs[p_obj]
    /\ last.build_reason = Some(DependencyNewer)
    /\ last.todo

\* a job that is skipped although its dependency file lists files
C33_SkipWitness ==
    /\ last.op = "update_build_reason"
    /\ last.build_reason = None
    /\ ~last.todo
    /\ last.dep.state = "file" /\ PathTokens # {}

(***************************************************************************)
(* run(): placement, trampolines and output files (SpecBuild).             *)
(***************************************************************************)

\* C31: on a successful build the exheader written has text.size =
\* text.num_pages * PAGE_SIZE, data.size = writer.end_address() -
\* data.address, data.num_pages = ceil(data.size / PAGE_SIZE) and bss_size =
\* 0, so that data.address + data.num_pages * PAGE_SIZE >=
\* writer.end_address() and data.num_pages * PAGE_SIZE - data.size <
\* PAGE_SIZE; every other field equals the original's.
C31_ExheaderSizes ==
    phase = "exit" =>
        /\ exheader_bin # None
        /\ LET eh == exheader_bin[1]
               text == eh.text_section
               data == eh.data_section
           IN  /\ text.size = text.num_pages * PAGE_SIZE
               /\ data.size = end_address(writer) - data.address
               /\ (data.num_pages - 1) * PAGE_SIZE < data.size
               /\ data.size <= data.num_pages * PAGE_SIZE
               /\ eh.bss_size = 0
               /\ data.address + data.num_pages * PAGE_SIZE >= end_address(writer)
               /\ data.num_pages * PAGE_SIZE - data.size < PAGE_SIZE
               /\ text.address = exheader.text_section.address
               /\ text.num_pages = exheader.text_section.num_pages
               /\ data.address = exheader.data_section.address
               /\ eh.stack_size = exheader.stack_size
               /\ eh.rodata_section = exheader.rodata_section
               /\ DOMAIN eh = DOMAIN exheader

\* a build with a trampoline in the tail arena has ended: the data does not
\* end on a page boundary
C31_Witness ==
    /\ phase = "exit"
    /\ exheader_bin # None
    /\ exheader_bin[1].data_section.size % PAGE_SIZE # 0
    /\ exheader_bin[1].data_section.num_pages > exheader.data_section.num_pages

\* the bytes of an image between loader_address and the end of the text pages
LoaderSlack(buffer) ==
    SubSeq(buffer, loader_address - CodeBase + 1,
           loader_address - CodeBase + loader_max_size)

\* C32: when a .mw_loader_text section exists and is larger than
\* loader_max_size = text.num_pages * PAGE_SIZE - text.size, the build ends
\* with a fatal error before the loader bytes are written into the image and
\* before any trampoline is generated; when there is no .text section the
\* build ends with a fatal error.
C32_PlacementErrors ==
    /\ (phase = "place" /\ error = None) =>
          LET r == place_sections(writer, elf) IN
          /\ (/\ elf.loader_text_section # None
              /\ Len(elf.loader_text_section[1].data) > loader_max_size)
                => /\ r.res = Fatal("Loader size exceeds maximum size")
                   /\ r.w = writer
          /\ elf.custom_text_section = None => (r.res # Ok /\ r.res.tag = "Fatal")
    /\ (phase = "place" /\ error # None) =>
          /\ error.tag = "Fatal"
          /\ placed = <<>> /\ code_bin = None /\ exheader_bin = None
          /\ (/\ elf.loader_text_section # None
              /\ Len(elf.loader_text_section[1].data) > loader_max_size)
                => LoaderSlack(writer.buffer) = LoaderSlack(OriginalCode)
    /\ phase \in {"patch", "exit"} =>
          /\ elf.custom_text_section # None
          /\ elf.loader_text_section # None
                => Len(elf.loader_text_section[1].data) <= loader_max_size

\* the build has ended at the size check of the loader, with hooks registered
C32_Witness ==
    /\ phase = "place"
    /\ error = Fatal("Loader size exceeds maximum size")
    /\ pre_post_entries # <<>>
    /\ LoaderSlack(writer.buffer) = LoaderSlack(OriginalCode)

\* C37: build/code.bin and build/exheader.bin are written only after section
\* emission, symbol hooks, .hks processing, loader and custom text placement
\* and trampoline generation have all ended without error; a run that ends
\* with an error in one of these phases writes neither file.
C37_OutputOnlyAfterSuccess ==
    /\ [](error # None => (code_bin = None /\ exheader_bin = None))
    /\ []((code_bin # None \/ exheader_bin # None) =>
             /\ phase = "exit"
             /\ code_bin # None /\ exheader_bin # None
             /\ todo = {}
             /\ DOMAIN placed = DOMAIN pre_post_entries)
    /\ [][(code_bin' # code_bin \/ exheader_bin' # exheader_bin) =>
             /\ phase = "patch" /\ error = None /\ todo = {}
             /\ code_bin = None /\ exheader_bin = None
         ]_vars

\* a run has ended with a panic in the loop over the table after one entry
\* was patched: no file is written
C37_Witness ==
    /\ phase = "patch"
    /\ error = Panic
    /\ placed # <<>>
    /\ code_bin = None /\ exheader_bin = None

\* hook site f lies inside the bytes of the section
InSection(f, section) ==
    /\ section # None
    /\ section[1].address <= f
    /\ f + 4 <= section[1].address + Len(section[1].data)

\* the callbacks of entry e are functions of the custom text
NearCallbacks(e) ==
    \A i \in 1..Len(e.pre) + Len(e.post) :
        (e.pre \o e.post)[i] \in SymbolAddresses

\* C34: a Pre/Post hook whose hook site lies inside the bytes of the linked
\* custom .text is realised: the loop over the table reads the instruction
\* at from_addr, appends the trampoline to the tail arena and rewrites
\* from_addr into a branch to it, without any error; the same holds for a
\* site inside the .mw_loader_text bytes with the loader arena.
C34_HookInsidePlacedText ==
    (phase = "patch" /\ error = None) =>
        \A f \in todo :
            LET e == pre_post_entries[f]
                r == patch_entry(writer, f, e)
            IN  (/\ NearCallbacks(e)
                 /\ \/ InSection(f, elf.custom_text_section) /\ e.extra_pos = TailPos
                    \/ InSection(f, elf.loader_text_section) /\ e.extra_pos = Loader)
                => /\ r.res = Ok
                   /\ WordAt(r.w, f).hi = 234
                   /\ BranchTarget(WordAt(r.w, f), f) = r.base[1]

\* C35: after a successful build everything placed in the loader arena, the
\* .mw_loader_text bytes and every Loader trampoline, lies in the slack of the
\* original text pages: the final loader cursor is at most loader_address +
\* loader_max_size = text.address + text.num_pages * PAGE_SIZE.
C35_LoaderArenaWithinSlack ==
    phase = "exit" =>
        /\ loader_address + loader_max_size
              = exheader.text_section.address + exheader.text_section.num_pages * PAGE_SIZE
        /\ writer.loader_extra_address # None =>
              writer.loader_extra_address[1] <= loader_address + loader_max_size
        /\ \A f \in DOMAIN placed :
              pre_post_entries[f].extra_pos = Loader =>
                  placed[f].base + TrampolineSize(pre_post_entries[f])
                      <= loader_address + loader_max_size

\* the address ranges the hook actions of a build that ended well have
\* written: the hook section, the loader text, the custom text, and per entry
\* the redirect at the hook site and the body of the trampoline
SectionRange(section) ==
    IF section = None THEN {}
    ELSE section[1].address .. (section[1].address + Len(section[1].data) - 1)
HookActions ==
    {[action |-> "hook section", range |-> SectionRange(elf.hook_section)],
     [action |-> "loader text", range |-> SectionRange(elf.loader_text_section)],
     [action |-> "custom text", range |-> SectionRange(elf.custom_text_section)]}
      \cup {[action |-> "redirect", site |-> f, range |-> f .. (f + 3)] : f \in DOMAIN placed}
      \cup {[action |-> "trampoline", site |-> f,
             range |-> placed[f].base
                          .. (placed[f].base + TrampolineSize(pre_post_entries[f]) - 1)] :
               f \in DOMAIN placed}

\* C36: in a successful build no address of the output image is written by
\* more than one hook action (hook section, loader and custom text placement,
\* hook-site redirect, loader trampoline body, tail trampoline body): two
\* actions that target overlapping addresses make the build fail.
C36_NoAddressWrittenTwice ==
    phase = "exit" =>
        \A a, b \in HookActions : a # b => a.range \cap b.range = {}


====
